---- MODULE Spec2Model ----
(***************************************************************************)
(* Model of the cost-risk input interface (src/unnamed/part_000, the       *)
(* validated interface; src/src/App.jsx is its earlier near-duplicate and  *)
(* src/unnamed/part_001 the request layer).                                *)
(*                                                                         *)
(* The React component is modelled as a state machine: one variable per    *)
(* useState / useRef cell, one action per event handler or per completion  *)
(* of an awaited request.  A handler runs to its first await atomically;   *)
(* what follows the await is a separate action that fires when the reply   *)
(* arrives, with the values its closure captured carried in the pending    *)
(* request.                                                                *)
(***************************************************************************)
EXTENDS Integers, Sequences, FiniteSets, TLC

(***************************************************************************)
(* JavaScript values held in numeric fields.  k is the kind:               *)
(*   "null"  null                "num"  a finite number n                  *)
(*   "nan"   the number NaN      "str"  text that reads as the number n    *)
(*   "empty" the empty string    "text" non-blank text that is no number   *)
(* Probabilities are held in tenths (ProbOne is 1.0); every other number   *)
(* is held as it is.                                                       *)
(***************************************************************************)
Val(k, n, s) == [k |-> k, n |-> n, s |-> s]
Null == Val("null", 0, "")
Num(n) == Val("num", n, "")
NaN == Val("nan", 0, "")
Str(n) == Val("str", n, "")
Empty == Val("empty", 0, "")
Text(s) == Val("text", 0, s)

\* Number(v)
ToNumber(v) ==
  CASE v.k = "null" -> Num(0)
    [] v.k = "num" -> v
    [] v.k = "nan" -> NaN
    [] v.k = "str" -> Num(v.n)
    [] v.k = "empty" -> Num(0)
    [] OTHER -> NaN

\* Number.isFinite(x), x a number
IsFinite(x) == x.k = "num"

\* x || 0, x a number
OrZero(x) == IF x.k = "num" /\ x.n # 0 THEN x ELSE Num(0)

\* v ?? d
Coalesce(v, d) == IF v.k = "null" THEN d ELSE v

\* v === null || v === undefined || v === ""
IsBlank(v) == v.k \in {"null", "empty"}

ProbOne == 10
MaxIterations == 20000

(***************************************************************************)
(* Bounds of the model.                                                    *)
(***************************************************************************)
\* user gestures explored from the constructed state: an edit of an input
\* spends two units of the budget and a run one, so that MaxBudget covers
\* run, edit, run as well as two edits in a row
MaxBudget == 4
\* edits explored in the CBS table alone and in the risk register alone
MaxCbsEdits == 3
MaxRiskEdits == 3

SENSITIVITY_LEVELS == <<"none", "low", "medium", "high">>
EXCLUDED_FACTORS == {"% Allocation"}
DRIVER_OPTIONS ==
  <<"Market & economic conditions", "Labour market & productivity",
    "Site & environmental conditions", "Regulatory environments",
    "Procurement & contract complexities",
    "Technology & commissioning complexity">>

Range(f) == {f[i] : i \in DOMAIN f}

\* String(s).toLowerCase() over the factor keys and risk types the model uses
ToLowerCase(s) ==
  CASE s = "User defined" -> "user defined"
    [] s = "USER DEFINED" -> "user defined"
    [] s = "Realistic" -> "realistic"
    [] s = "Conservative" -> "conservative"
    [] s = "Name" -> "name"
    [] s = "baseCost" -> "basecost"
    [] s = "mostLikely" -> "mostlikely"
    [] s = "Piling" -> "piling"
    [] s = "PILING" -> "piling"
    [] s = "Fitout" -> "fitout"
    [] s = "Weather" -> "weather"
    [] s = "Ground" -> "ground"
    [] s = "Inherent" -> "inherent"
    [] s = "Risk" -> "risk"
    [] s = "riskType" -> "risktype"
    [] s = "lowCost" -> "lowcost"
    [] s = "highCost" -> "highcost"
    [] OTHER -> s

\* String(n).padStart(2, "0") glued to the prefix
makeSequentialId(prefix, n) ==
  prefix \o (IF n < 10 THEN "0" \o ToString(n) ELSE ToString(n))

VARIABLES
  confidenceFactors,   \* usable factor keys, in table order
  confidenceFactorMap, \* the table as loaded: sequence of entries
  factorsFetch,        \* "pending" | "done" | "failed": the bootstrap fetch
  errors,
  projectName,
  cbsCounter,          \* cbsCounterRef.current
  riskCounter,         \* riskCounterRef.current
  cbsItems,
  risks,
  iterations,
  seed,
  correlationMode,
  results,             \* Null-like NoResults, or the results of a payload
  isRunning,
  isExporting,
  sensitivity,
  commentary,
  commentaryMode,
  isCommentaryRunning,
  commentaryError,
  simPending,          \* simulate requests awaiting their reply
  comPending,          \* commentary requests awaiting their reply
  exportPending,       \* export requests awaiting their reply
  cbsImport,           \* CBS file whose text is being read, with the closure
  riskImport,          \* risk file whose text is being read
  budget,              \* exploration budget left
  probe,               \* input handed to a pure function under test
  probeOut             \* what the function returned for it

vars ==
  <<confidenceFactors, confidenceFactorMap, factorsFetch, errors, projectName,
    cbsCounter, riskCounter, cbsItems, risks, iterations, seed,
    correlationMode, results, isRunning, isExporting, sensitivity, commentary,
    commentaryMode, isCommentaryRunning, commentaryError, simPending,
    comPending, exportPending, cbsImport, riskImport, budget, probe,
    probeOut>>

inputVars ==
  <<projectName, cbsCounter, riskCounter, cbsItems, risks, iterations, seed,
    correlationMode>>
factorVars == <<confidenceFactors, confidenceFactorMap, factorsFetch>>
resultVars ==
  <<results, sensitivity, commentary, commentaryMode, isCommentaryRunning,
    commentaryError>>
requestVars == <<simPending, comPending, exportPending>>
importVars == <<cbsImport, riskImport>>
probeVars == <<probe, probeOut>>
NoProbe == [present |-> FALSE]

NoResults == [present |-> FALSE]
NoCommentary == [present |-> FALSE]
NoImport == [present |-> FALSE]

CbsItem(id, name, baseCost, cf, best, ml, worst) ==
  [id |-> id, name |-> name, baseCost |-> baseCost, confidenceFactor |-> cf,
   bestCaseCost |-> best, mostLikelyCost |-> ml, worstCaseCost |-> worst,
   driverGroup |-> "", sensitivity |-> "medium"]

Risk(id, name, riskType, p, lo, ml, hi) ==
  [id |-> id, name |-> name, riskType |-> riskType, probability |-> p,
   lowCost |-> lo, mostLikelyCost |-> ml, highCost |-> hi]

InitialCbsItems ==
  << CbsItem("cbs01", "INVESTIGATION", Num(0), "Realistic", Null, Null, Null),
     CbsItem("cbs02", "FUNCTIONAL DESIGN", Num(0), "Realistic", Null, Null, Null),
     CbsItem("cbs03", "DETAILED DESIGN", Num(0), "Realistic", Null, Null, Null),
     CbsItem("cbs04", "CONSTRUCTION", Num(0), "Realistic", Null, Null, Null) >>

InitialRisks ==
  << Risk("r01", "Unknown services relocation", "contingent", Num(2),
          Num(200000), Num(600000), Num(1200000)),
     Risk("r02", "Contamination disposal", "contingent", Num(1),
          Num(150000), Num(400000), Num(900000)) >>

InitState ==
  /\ confidenceFactors = <<>>
  /\ confidenceFactorMap = <<>>
  /\ factorsFetch = "pending"
  /\ errors = <<>>
  /\ projectName = ""
  /\ cbsCounter = 4
  /\ riskCounter = 2
  /\ cbsItems = InitialCbsItems
  /\ risks = InitialRisks
  /\ iterations = Num(5000)
  /\ seed = Num(123456)
  /\ correlationMode = "none"
  /\ results = NoResults
  /\ isRunning = FALSE
  /\ isExporting = FALSE
  /\ sensitivity = <<>>
  /\ commentary = NoCommentary
  /\ commentaryMode = "null"
  /\ isCommentaryRunning = FALSE
  /\ commentaryError = "null"
  /\ simPending = <<>>
  /\ comPending = <<>>
  /\ exportPending = <<>>
  /\ cbsImport = NoImport
  /\ riskImport = NoImport

NoProbes == probe = NoProbe /\ probeOut = NoProbe

Init == InitState /\ NoProbes /\ budget = MaxBudget

(***************************************************************************)
(* Pure functions of the component.                                        *)
(***************************************************************************)
\* String(s).trim() over the names and keys the model uses
Trim(s) == IF s = " " THEN "" ELSE s

isUserDefinedFactor(cf) == ToLowerCase(Trim(cf)) = "user defined"

\* a < b on numbers: false when either is NaN
Lt(a, b) == IsFinite(a) /\ IsFinite(b) /\ a.n < b.n
Gt(a, b) == Lt(b, a)

\* isNum of validationIssues
isNum(v) ==
  IF v.k \in {"num", "nan"}
    THEN IsFinite(v)
    ELSE v.k # "null" /\ v.k # "empty" /\ IsFinite(ToNumber(v))

Issue(scope, row, msg) == [scope |-> scope, row |-> row, msg |-> msg]
IssueIf(cond, scope, row, msg) ==
  IF cond THEN <<Issue(scope, row, msg)>> ELSE <<>>

iterationIssues(its) ==
  LET it == ToNumber(its) IN
    IssueIf(~IsFinite(it) \/ ~Gt(it, Num(0)), "", 0,
            "Iterations must be a positive number.")
    \o IssueIf(IsFinite(it) /\ Gt(it, Num(MaxIterations)), "", 0,
               "Iterations must be 20,000 or less.")

userDefinedIssues(x, i) ==
  LET b == ToNumber(x.bestCaseCost)
      ml == ToNumber(x.mostLikelyCost)
      w == ToNumber(x.worstCaseCost)
  IN
    IssueIf(~isNum(x.bestCaseCost) \/ Lt(b, Num(0)), "CBS", i,
            "Best case is required (0 or more).")
    \o IssueIf(~isNum(x.mostLikelyCost) \/ Lt(ml, Num(0)), "CBS", i,
               "Most likely is required (0 or more).")
    \o IssueIf(~isNum(x.worstCaseCost) \/ Lt(w, Num(0)), "CBS", i,
               "Worst case is required (0 or more).")
    \o IssueIf(IsFinite(b) /\ IsFinite(ml) /\ Gt(b, ml), "CBS", i,
               "Best case must be <= Most likely.")
    \o IssueIf(IsFinite(ml) /\ IsFinite(w) /\ Gt(ml, w), "CBS", i,
               "Most likely must be <= Worst case.")

cbsRowIssues(x, i, mode) ==
  IssueIf(Trim(x.name) = "", "CBS", i, "Name is required.")
  \o IssueIf(~isNum(x.baseCost) \/ Lt(ToNumber(x.baseCost), Num(0)), "CBS", i,
             "Base Cost must be 0 or more.")
  \o IssueIf(x.confidenceFactor = "", "CBS", i,
             "Confidence Factor is required.")
  \o (IF ToLowerCase(mode) = "standard"
        THEN IssueIf(Trim(x.driverGroup) = "", "CBS", i,
                     "Driver group is required in Standard correlation mode.")
             \o IssueIf(
                  (IF x.sensitivity = "" THEN "medium"
                                         ELSE ToLowerCase(x.sensitivity))
                    \notin {"low", "medium", "high"}, "CBS", i,
                  "Sensitivity must be Low/Medium/High.")
        ELSE <<>>)
  \o (IF ToLowerCase(x.confidenceFactor) = "user defined"
        THEN userDefinedIssues(x, i)
        ELSE <<>>)

riskRowIssues(r, i) ==
  LET p == ToNumber(r.probability)
      lo == ToNumber(r.lowCost)
      ml == ToNumber(r.mostLikelyCost)
      hi == ToNumber(r.highCost)
  IN
    IssueIf(Trim(r.name) = "", "Risk", i, "Risk name is required.")
    \o IssueIf(~IsFinite(p) \/ Lt(p, Num(0)) \/ Gt(p, Num(ProbOne)), "Risk", i,
               "Probability must be between 0 and 1.")
    \o IssueIf(~IsFinite(lo) \/ Lt(lo, Num(0)), "Risk", i,
               "Low cost must be 0 or more.")
    \o IssueIf(~IsFinite(ml) \/ Lt(ml, Num(0)), "Risk", i,
               "Most likely cost must be 0 or more.")
    \o IssueIf(~IsFinite(hi) \/ Lt(hi, Num(0)), "Risk", i,
               "High cost must be 0 or more.")
    \o IssueIf(IsFinite(lo) /\ IsFinite(ml) /\ Gt(lo, ml), "Risk", i,
               "Low must be <= Most likely.")
    \o IssueIf(IsFinite(ml) /\ IsFinite(hi) /\ Gt(ml, hi), "Risk", i,
               "Most likely must be <= High.")

RECURSIVE cbsIssuesFrom(_, _, _)
cbsIssuesFrom(items, i, mode) ==
  IF i > Len(items) THEN <<>>
  ELSE cbsRowIssues(items[i], i, mode) \o cbsIssuesFrom(items, i + 1, mode)

RECURSIVE riskIssuesFrom(_, _)
riskIssuesFrom(rs, i) ==
  IF i > Len(rs) THEN <<>>
  ELSE riskRowIssues(rs[i], i) \o riskIssuesFrom(rs, i + 1)

\* the useMemo: a function of (iterations, cbsItems, risks, correlationMode)
validationIssuesOf(its, items, rs, mode) ==
  iterationIssues(its)
  \o IssueIf(Len(items) = 0, "", 0, "At least one CBS cost item is required.")
  \o cbsIssuesFrom(items, 1, mode)
  \o riskIssuesFrom(rs, 1)

validationIssues ==
  validationIssuesOf(iterations, cbsItems, risks, correlationMode)

isInputsValid == Len(validationIssues) = 0

\* the item sent with its driver assignment whatever the mode is
payloadCbsItemKeepingDriver(x, mode) ==
  [id |-> x.id,
   name |-> x.name,
   baseCost |-> OrZero(ToNumber(x.baseCost)),
   confidenceFactor |-> x.confidenceFactor,
   driver_group |-> IF x.driverGroup # "" THEN Text(x.driverGroup) ELSE Null,
   sensitivity |-> Text(IF x.sensitivity = "" THEN "medium" ELSE x.sensitivity),
   bestCaseCost |->
     IF IsBlank(x.bestCaseCost) THEN Null ELSE ToNumber(x.bestCaseCost),
   mostLikelyCost |->
     IF IsBlank(x.mostLikelyCost) THEN Null ELSE ToNumber(x.mostLikelyCost),
   worstCaseCost |->
     IF IsBlank(x.worstCaseCost) THEN Null ELSE ToNumber(x.worstCaseCost)]

payloadCbsItem(x, mode) ==
  [id |-> x.id,
   name |-> x.name,
   baseCost |-> OrZero(ToNumber(x.baseCost)),
   confidenceFactor |-> x.confidenceFactor,
   driver_group |->
     IF mode = "standard" /\ x.driverGroup # "" THEN Text(x.driverGroup)
                                                 ELSE Null,
   sensitivity |->
     IF mode = "standard"
       THEN Text(IF x.sensitivity = "" THEN "medium" ELSE x.sensitivity)
       ELSE Null,
   bestCaseCost |->
     IF IsBlank(x.bestCaseCost) THEN Null ELSE ToNumber(x.bestCaseCost),
   mostLikelyCost |->
     IF IsBlank(x.mostLikelyCost) THEN Null ELSE ToNumber(x.mostLikelyCost),
   worstCaseCost |->
     IF IsBlank(x.worstCaseCost) THEN Null ELSE ToNumber(x.worstCaseCost)]

payloadRisk(r) ==
  [id |-> r.id,
   name |-> r.name,
   riskType |-> IF r.riskType = "" THEN "contingent" ELSE r.riskType,
   probability |-> OrZero(ToNumber(r.probability)),
   lowCost |-> OrZero(ToNumber(r.lowCost)),
   mostLikelyCost |-> OrZero(ToNumber(r.mostLikelyCost)),
   highCost |-> OrZero(ToNumber(r.highCost))]

\* the payload listing the contingent risks only
buildPayloadOfContingentOnly(its, sd, pname, mode, items, rs) ==
  LET kept == SelectSeq(rs, LAMBDA r : r.riskType # "inherent") IN
    [settings |-> [iterations |-> ToNumber(its), seed |-> ToNumber(sd)],
     projectInfo |-> [projectName |-> pname],
     correlation_mode |-> mode,
     cbsItems |-> [i \in DOMAIN items |-> payloadCbsItem(items[i], mode)],
     contingentRisks |-> [i \in DOMAIN kept |-> payloadRisk(kept[i])]]

buildPayloadOf(its, sd, pname, mode, items, rs) ==
  [settings |-> [iterations |-> ToNumber(its), seed |-> ToNumber(sd)],
   projectInfo |-> [projectName |-> pname],
   correlation_mode |-> mode,
   cbsItems |-> [i \in DOMAIN items |-> payloadCbsItem(items[i], mode)],
   contingentRisks |-> [i \in DOMAIN rs |-> payloadRisk(rs[i])]]

buildPayload ==
  buildPayloadOf(iterations, seed, projectName, correlationMode, cbsItems,
                 risks)

\* what the simulation service returns for a payload: the results of that
\* payload and one sensitivity row per item and risk it was given
simulateResults(payload) == [present |-> TRUE, payload |-> payload]
simulateSensitivity(payload) ==
  [i \in DOMAIN payload.cbsItems |->
     [name |-> payload.cbsItems[i].id, category |-> "CBS"]]
  \o [i \in DOMAIN payload.contingentRisks |->
        [name |-> payload.contingentRisks[i].id, category |-> "RISK"]]
commentaryText(payload) == [present |-> TRUE, payload |-> payload]

(***************************************************************************)
(* CSV import.  A file is held after normaliseLines and splitRow: the      *)
(* sequence of its non-blank lines, each the sequence of its trimmed,      *)
(* unquoted cells.  Indexes are 1-based; 0 stands for JavaScript's -1.     *)
(***************************************************************************)
Undefined == Val("undef", 0, "")

\* cells[i] of a row that may be shorter than the header
CellAt(cells, i) == IF i >= 1 /\ i <= Len(cells) THEN cells[i] ELSE Undefined

\* the text of a cell, as String(v || "").trim() gives it
CellText(c) ==
  CASE c.k = "text" -> Trim(c.s)
    [] c.k = "str" -> ToString(c.n)
    [] OTHER -> ""

\* header.indexOf(a)
IndexOf(header, a) ==
  IF \E i \in DOMAIN header : header[i] = a
    THEN CHOOSE i \in DOMAIN header :
           header[i] = a /\ \A j \in 1..(i - 1) : header[j] # a
    ELSE 0

RECURSIVE findIdxFrom(_, _, _)
findIdxFrom(header, aliases, k) ==
  IF k > Len(aliases) THEN 0
  ELSE IF IndexOf(header, aliases[k]) # 0 THEN IndexOf(header, aliases[k])
  ELSE findIdxFrom(header, aliases, k + 1)

findIdx(header, aliases) == findIdxFrom(header, aliases, 1)

headerOf(lines) ==
  [i \in DOMAIN lines[1] |-> ToLowerCase(CellText(lines[1][i]))]

\* a blank cell read as Number("") reads it, as 0
toNumOrNullBlankAsZero(v) ==
  IF v.k \in {"undef", "null", "empty"} THEN Num(0)
  ELSE IF IsFinite(ToNumber(v)) THEN ToNumber(v) ELSE Null

\* toNumOrNull of parseCbsCsv
toNumOrNull(v) ==
  IF CellText(v) = "" THEN Null
  ELSE IF IsFinite(ToNumber(v)) THEN ToNumber(v) ELSE Null

CbsRow(name, baseCost, low, ml, high) ==
  [name |-> name, baseCost |-> baseCost, low |-> low, mostLikely |-> ml,
   high |-> high]

RECURSIVE cbsRowsWithHeader(_, _, _, _)
cbsRowsWithHeader(lines, i, seen, ix) ==
  IF i > Len(lines) THEN <<>>
  ELSE
    LET cells == lines[i]
        name == CellText(CellAt(cells, ix.name))
        key == ToLowerCase(name)
        hasTrioCols == ix.low # 0 /\ ix.ml # 0 /\ ix.high # 0
        row ==
          CbsRow(name,
                 IF ix.base # 0 THEN toNumOrNull(CellAt(cells, ix.base))
                                ELSE Null,
                 IF hasTrioCols THEN toNumOrNull(CellAt(cells, ix.low))
                                ELSE Null,
                 IF hasTrioCols THEN toNumOrNull(CellAt(cells, ix.ml))
                                ELSE Null,
                 IF hasTrioCols THEN toNumOrNull(CellAt(cells, ix.high))
                                ELSE Null)
    IN IF name = "" \/ key \in seen
         THEN cbsRowsWithHeader(lines, i + 1, seen, ix)
         ELSE <<row>> \o cbsRowsWithHeader(lines, i + 1, seen \cup {key}, ix)

RECURSIVE cbsRowsBare(_, _, _)
cbsRowsBare(lines, i, seen) ==
  IF i > Len(lines) THEN <<>>
  ELSE
    LET name == CellText(CellAt(lines[i], 1))
        key == ToLowerCase(name)
    IN IF name = "" \/ key \in seen
         THEN cbsRowsBare(lines, i + 1, seen)
         ELSE <<CbsRow(name, Null, Null, Null, Null)>>
              \o cbsRowsBare(lines, i + 1, seen \cup {key})

\* the parser taking the first line for a header whatever it holds
parseCbsCsvFirstLineHeader(lines) ==
  IF Len(lines) = 0 THEN <<>>
  ELSE
    LET header == headerOf(lines)
        ix == [name |-> findIdx(header, <<"name", "cbs", "cbsname">>),
               base |-> findIdx(header,
                                <<"basecost", "base_cost", "cost", "base">>),
               low |-> findIdx(header,
                               <<"low", "lowcost", "best", "bestcase", "min">>),
               ml |-> findIdx(header,
                              <<"mostlikely", "most_likely", "mostlikelycost",
                                "mode", "ml">>),
               high |-> findIdx(header,
                                <<"high", "highcost", "worst", "worstcase",
                                  "max">>)]
    IN IF ix.name # 0 THEN cbsRowsWithHeader(lines, 2, {}, ix)
                      ELSE cbsRowsBare(lines, 2, {})

parseCbsCsv(lines) ==
  IF Len(lines) = 0 THEN <<>>
  ELSE
    LET header == headerOf(lines)
        ix == [name |-> findIdx(header, <<"name", "cbs", "cbsname">>),
               base |-> findIdx(header,
                                <<"basecost", "base_cost", "cost", "base">>),
               low |-> findIdx(header,
                               <<"low", "lowcost", "best", "bestcase", "min">>),
               ml |-> findIdx(header,
                              <<"mostlikely", "most_likely", "mostlikelycost",
                                "mode", "ml">>),
               high |-> findIdx(header,
                                <<"high", "highcost", "worst", "worstcase",
                                  "max">>)]
    IN IF ix.name # 0 THEN cbsRowsWithHeader(lines, 2, {}, ix)
                      ELSE cbsRowsBare(lines, 1, {})

Warning(row, msg) == [row |-> row, msg |-> msg]

\* toNum of parseRisksCsv: Number(String(v || "").trim()), NaN unless finite
toNum(v) ==
  IF v.k \in {"undef", "null", "empty"} THEN Num(0) ELSE ToNumber(v)

\* the cost repaired without a word
fixCostSilently(val, rowNum, label) ==
  [val |-> IF IsFinite(val) /\ val.n >= 0 THEN val ELSE Num(0), warn |-> <<>>]

\* fixCost: the cost kept, and the warning it raises (if any)
fixCost(val, rowNum, label) ==
  IF ~IsFinite(val)
    THEN [val |-> Num(0),
          warn |-> <<Warning(rowNum + 1, label \o " not a number; set to 0.")>>]
  ELSE IF Lt(val, Num(0))
    THEN [val |-> Num(0),
          warn |-> <<Warning(rowNum + 1, label \o " < 0; set to 0.")>>]
  ELSE [val |-> val, warn |-> <<>>]

\* one data row of parseRisksCsv: the risk parsed (if any) and its warnings.
\* rowNum is the 0-based line index of the source.
parseRiskRow(cells, rowNum, ix) ==
  LET name == CellText(CellAt(cells, ix.name))
      raw == IF ix.type # 0 THEN ToLowerCase(CellText(CellAt(cells, ix.type)))
                            ELSE ""
      riskType == IF raw \in {"inherent", "contingent"} THEN raw
                                                        ELSE "contingent"
      wType == IF ix.type # 0 /\ raw \notin {"inherent", "contingent", ""}
                 THEN <<Warning(rowNum + 1,
                                "invalid riskType, defaulted to 'contingent'.")>>
                 ELSE <<>>
      p0 == toNum(CellAt(cells, ix.p))
      wNaN == IF ~IsFinite(p0)
                THEN <<Warning(rowNum + 1, "probability not a number; set to 0.")>>
                ELSE <<>>
      p1 == IF IsFinite(p0) THEN p0 ELSE Num(0)
      wRange == IF Lt(p1, Num(0)) \/ Gt(p1, Num(ProbOne))
                  THEN <<Warning(rowNum + 1,
                                 "probability out of range; clamped to 0-1.")>>
                  ELSE <<>>
      p2 == IF Lt(p1, Num(0)) THEN Num(0)
            ELSE IF Gt(p1, Num(ProbOne)) THEN Num(ProbOne) ELSE p1
      lo == fixCost(toNum(CellAt(cells, ix.low)), rowNum, "lowCost")
      ml == fixCost(toNum(CellAt(cells, ix.ml)), rowNum, "mostLikelyCost")
      hi == fixCost(toNum(CellAt(cells, ix.high)), rowNum, "highCost")
      inherent == riskType = "inherent"
      wOrder == IF ~inherent
                   /\ ~(lo.val.n <= ml.val.n /\ ml.val.n <= hi.val.n)
                  THEN <<Warning(rowNum + 1,
                     "expected low <= mostLikely <= high. Simulation will still run.")>>
                  ELSE <<>>
  IN IF name = ""
       THEN [risks |-> <<>>,
             warnings |-> <<Warning(rowNum + 1, "missing risk name; skipped.")>>]
       ELSE [risks |->
               <<[name |-> name, riskType |-> riskType, probability |-> p2,
                  lowCost |-> IF inherent THEN Num(0) ELSE lo.val,
                  mostLikelyCost |-> IF inherent THEN Num(0) ELSE ml.val,
                  highCost |-> IF inherent THEN Num(0) ELSE hi.val]>>,
             warnings |->
               wType \o wNaN \o wRange \o lo.warn \o ml.warn \o hi.warn
               \o wOrder]

RECURSIVE riskRowsFrom(_, _, _)
riskRowsFrom(lines, i, ix) ==
  IF i > Len(lines) THEN [risks |-> <<>>, warnings |-> <<>>]
  ELSE
    LET one == parseRiskRow(lines[i], i - 1, ix)
        rest == riskRowsFrom(lines, i + 1, ix)
    IN [risks |-> one.risks \o rest.risks,
        warnings |-> one.warnings \o rest.warnings]

\* the check stopping at the first column it misses
missingHeadersFirstOnly(ix) ==
  IF ix.name = 0 THEN <<"name (or risk)">>
  ELSE IF ix.p = 0 THEN <<"probability (or p)">>
  ELSE IF ix.low = 0 THEN <<"lowCost (or low)">>
  ELSE IF ix.ml = 0 THEN <<"mostLikelyCost (or mostLikely/mode)">>
  ELSE IF ix.high = 0 THEN <<"highCost (or high)">>
  ELSE <<>>

missingHeaders(ix) ==
  (IF ix.name = 0 THEN <<"name (or risk)">> ELSE <<>>)
  \o (IF ix.p = 0 THEN <<"probability (or p)">> ELSE <<>>)
  \o (IF ix.low = 0 THEN <<"lowCost (or low)">> ELSE <<>>)
  \o (IF ix.ml = 0 THEN <<"mostLikelyCost (or mostLikely/mode)">> ELSE <<>>)
  \o (IF ix.high = 0 THEN <<"highCost (or high)">> ELSE <<>>)

parseRisksCsv(lines) ==
  IF Len(lines) = 0
    THEN [risks |-> <<>>, warnings |-> <<Warning(0, "No rows found.")>>]
  ELSE
    LET header == headerOf(lines)
        ix == [name |-> findIdx(header, <<"name", "risk">>),
               type |-> findIdx(header, <<"risktype", "type">>),
               p |-> findIdx(header, <<"probability", "p">>),
               low |-> findIdx(header, <<"lowcost", "low">>),
               ml |-> findIdx(header, <<"mostlikelycost", "mostlikely", "mode">>),
               high |-> findIdx(header, <<"highcost", "high">>)]
    IN IF Len(missingHeaders(ix)) > 0
         THEN [risks |-> <<>>,
               warnings |->
                 <<[row |-> 0, msg |-> "Missing required headers",
                    missing |-> missingHeaders(ix)]>>]
         ELSE riskRowsFrom(lines, 2, ix)

(***************************************************************************)
(* What the user and the services can supply.                              *)
(***************************************************************************)
FactorEntry(key, best, ml, worst) ==
  [key |-> key, best |-> Num(best), most_likely |-> Num(ml),
   worst |-> Num(worst)]

\* replies of GET /config/confidence-factors (multipliers in tenths)
FactorTables ==
  { << FactorEntry("Conservative", 10, 11, 12), FactorEntry("Realistic", 9, 10, 13),
       FactorEntry("User defined", 10, 10, 10),
       FactorEntry("% Allocation", 10, 10, 10) >>,
    << FactorEntry("Conservative", 10, 11, 12),
       FactorEntry("% Allocation", 10, 10, 10) >>,
    << FactorEntry("% Allocation", 10, 10, 10) >> }

IterationInputs == {Empty, Str(100), Str(25000)}
SeedInputs == {Str(7)}
ProjectNameInputs == {"Depot"}
NameInputs == {"", "X"}
BaseCostInputs == {Empty, Str(10), Str(-1)}
ManualCostInputs == {Empty, Str(50), Str(100)}
DriverInputs == {"", DRIVER_OPTIONS[1]}
SliderInputs == {0, 1}
ProbabilityInputs == {Empty, Str(5), Str(20)}
RiskCostInputs == {Empty, Str(50), Str(-1)}
RiskTypeInputs == {"contingent", "inherent"}

CbsFiles ==
  { \* name, base cost and trio: one row complete, one without the trio
    << <<Text("Name"), Text("baseCost"), Text("low"), Text("mostLikely"), Text("high")>>,
       <<Text("Piling"), Str(10), Str(5), Str(10), Str(20)>>,
       <<Text("Fitout"), Str(7), Empty, Empty, Empty>> >>,
    \* a bare list of names, one repeated
    << <<Text("Piling")>>, <<Text("Fitout")>>, <<Text("Piling")>> >>,
    \* a header and no data row
    << <<Text("name"), Text("cost")>> >> }

RiskFiles ==
  { << <<Text("risk"), Text("p"), Text("low"), Text("mode"), Text("high")>>,
       <<Text("Weather"), Str(3), Str(10), Str(20), Str(40)>> >>,
    \* an inherent row with costs, and a contingent row out of order
    << <<Text("name"), Text("type"), Text("probability"), Text("low"),
         Text("mostLikely"), Text("high")>>,
       <<Text("Ground"), Text("inherent"), Str(5), Str(10), Str(20), Str(40)>>,
       <<Text("Weather"), Text("contingent"), Str(3), Str(50), Str(20), Str(40)>> >>,
    \* no probability column
    << <<Text("risk"), Text("low"), Text("mode"), Text("high")>>,
       <<Text("Weather"), Str(10), Str(20), Str(40)>> >> }

(***************************************************************************)
(* Actions.                                                                *)
(***************************************************************************)
SpendEdit == budget >= 2 /\ budget' = budget - 2
SpendRun == budget >= 1 /\ budget' = budget - 1
budgetVars == <<budget>>

\* the reset leaving the previous results and sensitivity rows in place
resetResultsKeepingResults ==
  /\ UNCHANGED <<results, sensitivity>>
  /\ commentary' = NoCommentary
  /\ commentaryMode' = "null"
  /\ isCommentaryRunning' = FALSE
  /\ commentaryError' = "null"

resetResults ==
  /\ results' = NoResults
  /\ sensitivity' = <<>>
  /\ commentary' = NoCommentary
  /\ commentaryMode' = "null"
  /\ isCommentaryRunning' = FALSE
  /\ commentaryError' = "null"

\* the keys kept by the bootstrap fetch
usableKeys(table) ==
  SelectSeq([i \in DOMAIN table |-> table[i].key],
            LAMBDA k : k \notin EXCLUDED_FACTORS)

\* the effect that runs when confidenceFactors changes
factorFallback(items, keys) ==
  IF Len(keys) = 0 THEN items
  ELSE
    LET fallback == IF "Realistic" \in Range(keys) THEN "Realistic" ELSE keys[1]
    IN [i \in DOMAIN items |->
          IF items[i].confidenceFactor \in EXCLUDED_FACTORS
            THEN [items[i] EXCEPT !.confidenceFactor = fallback]
          ELSE IF items[i].confidenceFactor # ""
                  /\ items[i].confidenceFactor \notin Range(keys)
            THEN [items[i] EXCEPT !.confidenceFactor = fallback]
          ELSE items[i]]

\* getConfidenceFactors().then(...), and the effect its state change triggers
FactorsLoaded ==
  /\ factorsFetch = "pending"
  /\ \E table \in FactorTables :
       /\ confidenceFactors' = usableKeys(table)
       /\ confidenceFactorMap' = table
       /\ cbsItems' = factorFallback(cbsItems, usableKeys(table))
  /\ factorsFetch' = "done"
  /\ UNCHANGED <<probeVars, errors, projectName, cbsCounter, riskCounter,
                 risks, iterations, seed, correlationMode, resultVars, isRunning,
                 isExporting, requestVars, importVars, budgetVars>>

\* getConfidenceFactors().catch(...)
FactorsFailed ==
  /\ factorsFetch = "pending"
  /\ factorsFetch' = "failed"
  /\ UNCHANGED <<probeVars, confidenceFactors, confidenceFactorMap, errors,
                 inputVars,
                 resultVars, isRunning, isExporting, requestVars, importVars,
                 budgetVars>>

setIterations ==
  /\ SpendEdit
  /\ \E v \in IterationInputs : v # iterations /\ iterations' = v
  /\ UNCHANGED <<probeVars, factorVars, errors, projectName, cbsCounter, riskCounter,
                 cbsItems, risks, seed, correlationMode, resultVars, isRunning,
                 isExporting, requestVars, importVars>>

setSeed ==
  /\ SpendEdit
  /\ \E v \in SeedInputs : v # seed /\ seed' = v
  /\ UNCHANGED <<probeVars, factorVars, errors, projectName, cbsCounter, riskCounter,
                 cbsItems, risks, iterations, correlationMode, resultVars,
                 isRunning, isExporting, requestVars, importVars>>

setProjectName ==
  /\ SpendEdit
  /\ \E v \in ProjectNameInputs : v # projectName /\ projectName' = v
  /\ UNCHANGED <<probeVars, factorVars, errors, cbsCounter, riskCounter, cbsItems, risks,
                 iterations, seed, correlationMode, resultVars, isRunning,
                 isExporting, requestVars, importVars>>

\* the onChange of the two correlation radio buttons
setCorrelationMode ==
  /\ SpendEdit
  /\ \E m \in {"none", "standard"} : m # correlationMode /\ correlationMode' = m
  /\ resetResults
  /\ UNCHANGED <<probeVars, factorVars, errors, projectName, cbsCounter, riskCounter,
                 cbsItems, risks, iterations, seed, isRunning, isExporting,
                 requestVars, importVars>>

defaultFactorOf(keys) ==
  IF "Realistic" \in Range(keys) THEN "Realistic"
  ELSE IF Len(keys) > 0 THEN keys[1] ELSE "Realistic"

\* the id taken from the length of the list instead of the counter
newCbsIdFromLength(counter, items) == makeSequentialId("cbs", Len(items) + 1)

newCbsId(counter, items) == makeSequentialId("cbs", counter)

addCbsRow ==
  /\ SpendEdit
  /\ cbsCounter' = cbsCounter + 1
  /\ cbsItems' =
       Append(cbsItems,
              CbsItem(newCbsId(cbsCounter + 1, cbsItems), "", Num(0),
                      defaultFactorOf(confidenceFactors), Null, Null, Null))
  /\ resetResults
  /\ UNCHANGED <<probeVars, factorVars, errors, projectName, riskCounter, risks,
                 iterations, seed, correlationMode, isRunning, isExporting,
                 requestVars, importVars>>

deleteCbsRow ==
  /\ SpendEdit
  /\ \E i \in DOMAIN cbsItems :
       cbsItems' = SelectSeq(cbsItems, LAMBDA x : x.id # cbsItems[i].id)
  /\ resetResults
  /\ UNCHANGED <<probeVars, factorVars, errors, projectName, cbsCounter, riskCounter,
                 risks, iterations, seed, correlationMode, isRunning,
                 isExporting, requestVars, importVars>>

\* the patch applied without the clearing of the manual fields
patchedCbsRowKeepingManual(x, field, value) == [x EXCEPT ![field] = value]

\* { ...x, ...patch } and the clearing of the manual fields
patchedCbsRow(x, field, value) ==
  LET next == [x EXCEPT ![field] = value] IN
    IF field = "confidenceFactor" /\ ~isUserDefinedFactor(next.confidenceFactor)
      THEN [next EXCEPT !.bestCaseCost = Null, !.mostLikelyCost = Null,
                        !.worstCaseCost = Null]
      ELSE next

updateCbsRowOf(items, id, field, value) ==
  [i \in DOMAIN items |->
     IF items[i].id # id THEN items[i]
                         ELSE patchedCbsRow(items[i], field, value)]

indexToSensitivity(i) ==
  SENSITIVITY_LEVELS[(IF i > 3 THEN 3 ELSE IF i < 0 THEN 0 ELSE i) + 1]

\* the patches the row's inputs can send: the manual inputs exist only for
\* a User defined row, the driver inputs only in standard mode, and the
\* factor select offers the loaded keys
CbsPatches(x) ==
  {<<"name", v>> : v \in NameInputs}
  \cup {<<"baseCost", v>> : v \in BaseCostInputs}
  \cup {<<"confidenceFactor", k>> : k \in Range(confidenceFactors)}
  \cup (IF isUserDefinedFactor(x.confidenceFactor)
          THEN {<<f, v>> : f \in {"bestCaseCost", "mostLikelyCost",
                                  "worstCaseCost"},
                          v \in ManualCostInputs}
          ELSE {})
  \cup (IF correlationMode = "standard"
          THEN {<<"driverGroup", d>> : d \in DriverInputs}
               \cup {<<"sensitivity", indexToSensitivity(i)>> : i \in SliderInputs}
          ELSE {})

updateCbsRow ==
  /\ SpendEdit
  /\ \E i \in DOMAIN cbsItems :
       \E patch \in CbsPatches(cbsItems[i]) :
         /\ cbsItems[i][patch[1]] # patch[2]
         /\ cbsItems' = updateCbsRowOf(cbsItems, cbsItems[i].id, patch[1], patch[2])
  /\ resetResults
  /\ UNCHANGED <<probeVars, factorVars, errors, projectName, cbsCounter, riskCounter,
                 risks, iterations, seed, correlationMode, isRunning,
                 isExporting, requestVars, importVars>>

newRiskId(counter, rs) == makeSequentialId("r", counter)

addRiskRow ==
  /\ SpendEdit
  /\ riskCounter' = riskCounter + 1
  /\ risks' =
       Append(risks,
              Risk(newRiskId(riskCounter + 1, risks), "", "contingent", Num(0),
                   Num(0), Num(0), Num(0)))
  /\ resetResults
  /\ UNCHANGED <<probeVars, factorVars, errors, projectName, cbsCounter, cbsItems,
                 iterations, seed, correlationMode, isRunning, isExporting,
                 requestVars, importVars>>

deleteRiskRow ==
  /\ SpendEdit
  /\ \E i \in DOMAIN risks :
       risks' = SelectSeq(risks, LAMBDA x : x.id # risks[i].id)
  /\ resetResults
  /\ UNCHANGED <<probeVars, factorVars, errors, projectName, cbsCounter, riskCounter,
                 cbsItems, iterations, seed, correlationMode, isRunning,
                 isExporting, requestVars, importVars>>

\* the patch applied without the zeroing of an inherent risk's costs
patchedRiskRowKeepingCosts(x, field, value) == [x EXCEPT ![field] = value]

patchedRiskRow(x, field, value) ==
  LET next == [x EXCEPT ![field] = value] IN
    IF field = "riskType" /\ ToLowerCase(value) = "inherent"
      THEN [next EXCEPT !.lowCost = Num(0), !.mostLikelyCost = Num(0),
                        !.highCost = Num(0)]
      ELSE next

updateRiskRowOf(rs, id, field, value) ==
  [i \in DOMAIN rs |->
     IF rs[i].id # id THEN rs[i] ELSE patchedRiskRow(rs[i], field, value)]

\* isInherent of the risk row render
isInherentRow(r) ==
  ToLowerCase(IF r.riskType = "" THEN "contingent" ELSE r.riskType) = "inherent"

\* the patches the row's inputs can send: the cost inputs are disabled for an
\* inherent risk
RiskPatches(r) ==
  {<<"name", v>> : v \in NameInputs}
  \cup {<<"riskType", t>> : t \in RiskTypeInputs}
  \cup {<<"probability", v>> : v \in ProbabilityInputs}
  \cup (IF ~isInherentRow(r)
          THEN {<<f, v>> : f \in {"lowCost", "mostLikelyCost", "highCost"},
                          v \in RiskCostInputs}
          ELSE {})

updateRiskRow ==
  /\ SpendEdit
  /\ \E i \in DOMAIN risks :
       \E patch \in RiskPatches(risks[i]) :
         /\ risks[i][patch[1]] # patch[2]
         /\ risks' = updateRiskRowOf(risks, risks[i].id, patch[1], patch[2])
  /\ resetResults
  /\ UNCHANGED <<probeVars, factorVars, errors, projectName, cbsCounter, riskCounter,
                 cbsItems, iterations, seed, correlationMode, isRunning,
                 isExporting, requestVars, importVars>>

ErrorEntry(msg, detail) == [msg |-> msg, detail |-> detail]

\* "Import costs from CSV" and the choice of a file: openCbsCsvPicker clears
\* the errors, onCbsCsvSelected runs up to `await file.text()`
onCbsCsvSelected ==
  /\ SpendEdit
  /\ cbsImport = NoImport
  /\ \E file \in CbsFiles :
       cbsImport' = [present |-> TRUE, lines |-> file,
                     confidenceFactors |-> confidenceFactors]
  /\ errors' = <<>>
  /\ UNCHANGED <<probeVars, factorVars, inputVars, resultVars, isRunning, isExporting,
                 requestVars, riskImport>>

\* newItems of onCbsCsvSelected
importedCbsItems(rows, defaultFactor) ==
  [idx \in DOMAIN rows |->
     LET row == rows[idx]
         hasUserDefined == /\ row.baseCost.k = "num"
                           /\ row.low.k = "num"
                           /\ row.mostLikely.k = "num"
                           /\ row.high.k = "num"
     IN CbsItem(makeSequentialId("cbs", idx), row.name,
                Coalesce(row.baseCost, Num(0)),
                IF hasUserDefined THEN "User defined" ELSE defaultFactor,
                IF hasUserDefined THEN ToNumber(row.low) ELSE Null,
                IF hasUserDefined THEN ToNumber(row.mostLikely) ELSE Null,
                IF hasUserDefined THEN ToNumber(row.high) ELSE Null)]

\* onCbsCsvSelected after `await file.text()`
onCbsCsvRead ==
  /\ cbsImport # NoImport
  /\ LET rows == parseCbsCsv(cbsImport.lines) IN
       IF Len(rows) = 0
         THEN /\ errors' = <<ErrorEntry("CBS import failed",
                                        <<"No CBS names found in CSV.">>)>>
              /\ UNCHANGED <<cbsItems, cbsCounter, resultVars>>
         ELSE /\ cbsItems' =
                   importedCbsItems(rows,
                                    defaultFactorOf(cbsImport.confidenceFactors))
              /\ cbsCounter' = Len(rows)
              /\ resetResults
              /\ UNCHANGED errors
  /\ cbsImport' = NoImport
  /\ UNCHANGED <<probeVars, factorVars, projectName, riskCounter, risks, iterations, seed,
                 correlationMode, isRunning, isExporting, requestVars,
                 riskImport, budgetVars>>

\* "Import risks from CSV" and the choice of a file
onRisksCsvSelected ==
  /\ SpendEdit
  /\ riskImport = NoImport
  /\ \E file \in RiskFiles :
       riskImport' = [present |-> TRUE, lines |-> file]
  /\ errors' = <<>>
  /\ UNCHANGED <<probeVars, factorVars, inputVars, resultVars, isRunning, isExporting,
                 requestVars, cbsImport>>

\* newRisks of onRisksCsvSelected
importedRisks(parsed) ==
  [idx \in DOMAIN parsed |->
     Risk(makeSequentialId("r", idx), parsed[idx].name,
          IF parsed[idx].riskType = "" THEN "contingent"
                                       ELSE parsed[idx].riskType,
          parsed[idx].probability, parsed[idx].lowCost,
          parsed[idx].mostLikelyCost, parsed[idx].highCost)]

\* the import clearing the results before it looks at what it parsed
onRisksCsvReadClearing ==
  /\ riskImport # NoImport
  /\ resetResults
  /\ LET out == parseRisksCsv(riskImport.lines) IN
       IF Len(out.risks) = 0
         THEN /\ errors' = <<ErrorEntry("Risk import failed", out.warnings)>>
              /\ UNCHANGED <<risks, riskCounter>>
         ELSE /\ risks' = importedRisks(out.risks)
              /\ riskCounter' = Len(out.risks)
              /\ errors' =
                   IF Len(out.warnings) > 0
                     THEN <<ErrorEntry("Risk import warnings (import succeeded)",
                                       out.warnings)>>
                     ELSE errors
  /\ riskImport' = NoImport
  /\ UNCHANGED <<probeVars, factorVars, projectName, cbsCounter, cbsItems, iterations,
                 seed, correlationMode, isRunning, isExporting, requestVars,
                 cbsImport, budgetVars>>

\* onRisksCsvSelected after `await file.text()`
onRisksCsvRead ==
  /\ riskImport # NoImport
  /\ LET out == parseRisksCsv(riskImport.lines) IN
       IF Len(out.risks) = 0
         THEN /\ errors' = <<ErrorEntry("Risk import failed", out.warnings)>>
              /\ UNCHANGED <<risks, riskCounter, resultVars>>
         ELSE /\ risks' = importedRisks(out.risks)
              /\ riskCounter' = Len(out.risks)
              /\ resetResults
              /\ errors' =
                   IF Len(out.warnings) > 0
                     THEN <<ErrorEntry("Risk import warnings (import succeeded)",
                                       out.warnings)>>
                     ELSE errors
  /\ riskImport' = NoImport
  /\ UNCHANGED <<probeVars, factorVars, projectName, cbsCounter, cbsItems, iterations,
                 seed, correlationMode, isRunning, isExporting, requestVars,
                 cbsImport, budgetVars>>

\* the button without the validation gate, as src/src/App.jsx has it
runEnabledUnvalidated(running, exporting, valid) == ~(running \/ exporting)

\* the button not disabled while a run is in flight
runEnabledWhileRunning(running, exporting, valid) == ~(exporting \/ ~valid)

\* the Run Simulation button is enabled (its `disabled` is false)
runEnabled(running, exporting, valid) == ~(running \/ exporting \/ ~valid)

\* runSimulation up to `await simulate(payload)`
runSimulation ==
  /\ SpendRun
  /\ runEnabled(isRunning, isExporting, isInputsValid)
  /\ errors' = <<>>
  /\ resetResults
  /\ isRunning' = TRUE
  /\ simPending' = Append(simPending, buildPayload)
  /\ UNCHANGED <<probeVars, factorVars, inputVars, isExporting, comPending, exportPending,
                 importVars>>

RemoveAt(q, i) == [j \in 1..(Len(q) - 1) |-> IF j < i THEN q[j] ELSE q[j + 1]]

\* runSimulation after the await, the reply being a result: the results are
\* set, runCommentary runs up to `await commentaryRun(payload)`, then `finally`
simulateResolved ==
  /\ \E i \in DOMAIN simPending :
       LET payload == simPending[i] IN
         /\ results' = simulateResults(payload)
         /\ sensitivity' = simulateSensitivity(payload)
         /\ isCommentaryRunning' = TRUE
         /\ commentaryError' = "null"
         /\ commentary' = NoCommentary
         /\ commentaryMode' = "null"
         /\ comPending' = Append(comPending, payload)
         /\ simPending' = RemoveAt(simPending, i)
  /\ isRunning' = FALSE
  /\ UNCHANGED <<probeVars, factorVars, errors, inputVars, isExporting, exportPending,
                 importVars, budgetVars>>

\* the failed request dropped without an entry in the error list
simulateRejectedSilently ==
  /\ \E i \in DOMAIN simPending : simPending' = RemoveAt(simPending, i)
  /\ isRunning' = FALSE
  /\ UNCHANGED <<probeVars, factorVars, errors, inputVars, resultVars,
                 isExporting, comPending, exportPending, importVars, budgetVars>>

\* runSimulation after the await, the request having failed: apiFetch throws
\* an Error without detail on a non-2xx reply, fetch rejects on a network error
simulateRejected ==
  /\ \E i \in DOMAIN simPending : simPending' = RemoveAt(simPending, i)
  /\ errors' = <<ErrorEntry("Network/API error", <<>>)>>
  /\ isRunning' = FALSE
  /\ UNCHANGED <<probeVars, factorVars, inputVars, resultVars, isExporting, comPending,
                 exportPending, importVars, budgetVars>>

\* runCommentary after the await, the reply being a commentary
commentaryResolved ==
  /\ \E i \in DOMAIN comPending :
       /\ commentaryMode' = "mode_used"
       /\ commentary' = commentaryText(comPending[i])
       /\ comPending' = RemoveAt(comPending, i)
  /\ isCommentaryRunning' = FALSE
  /\ UNCHANGED <<probeVars, factorVars, errors, inputVars, results, sensitivity,
                 commentaryError, isRunning, isExporting, simPending,
                 exportPending, importVars, budgetVars>>

\* runCommentary after the await, the request having failed
commentaryRejected ==
  /\ \E i \in DOMAIN comPending : comPending' = RemoveAt(comPending, i)
  /\ commentaryError' = "error"
  /\ isCommentaryRunning' = FALSE
  /\ UNCHANGED <<probeVars, factorVars, errors, inputVars, results, sensitivity,
                 commentary, commentaryMode, isRunning, isExporting, simPending,
                 exportPending, importVars, budgetVars>>

canExport == results.present /\ ~isRunning /\ ~isExporting

\* downloadJson / downloadExcel up to the await of the export request
download ==
  /\ canExport
  /\ exportPending' = Append(exportPending, buildPayload)
  /\ errors' = <<>>
  /\ isExporting' = TRUE
  /\ UNCHANGED <<probeVars, factorVars, inputVars, resultVars, isRunning, simPending,
                 comPending, importVars, budgetVars>>

\* the export after the await: the file is handed to the browser, or the
\* failure is listed
downloadSettled ==
  /\ \E i \in DOMAIN exportPending : exportPending' = RemoveAt(exportPending, i)
  /\ \E ok \in BOOLEAN :
       errors' = IF ok THEN errors ELSE <<ErrorEntry("Export failed", <<>>)>>
  /\ isExporting' = FALSE
  /\ UNCHANGED <<probeVars, factorVars, inputVars, resultVars, isRunning, simPending,
                 comPending, importVars, budgetVars>>

(***************************************************************************)
(* Specifications.                                                         *)
(*   Spec      the whole interface: every handler and every reply          *)
(*   SpecCbs   the CBS table: its handlers, the factor table, the mode     *)
(*   SpecRisk  the risk register: its handlers and import                  *)
(* The CBS handlers read and write only the CBS list, its counter, the     *)
(* factor keys and the correlation mode; the risk handlers only the risk   *)
(* list and its counter.  SpecCbs and SpecRisk therefore reach, deeper,    *)
(* the same list states as Spec.                                           *)
(***************************************************************************)
Next ==
  \/ FactorsLoaded \/ FactorsFailed
  \/ setIterations \/ setSeed \/ setProjectName \/ setCorrelationMode
  \/ addCbsRow \/ deleteCbsRow \/ updateCbsRow
  \/ addRiskRow \/ deleteRiskRow \/ updateRiskRow
  \/ onCbsCsvSelected \/ onCbsCsvRead
  \/ onRisksCsvSelected \/ onRisksCsvRead
  \/ runSimulation \/ simulateResolved \/ simulateRejected
  \/ commentaryResolved \/ commentaryRejected
  \/ download \/ downloadSettled

Spec == Init /\ [][Next]_vars

InitCbs == InitState /\ NoProbes /\ budget = MaxCbsEdits + MaxCbsEdits

NextCbs ==
  \/ FactorsLoaded \/ FactorsFailed
  \/ setCorrelationMode
  \/ addCbsRow \/ deleteCbsRow \/ updateCbsRow
  \/ onCbsCsvSelected \/ onCbsCsvRead

SpecCbs == InitCbs /\ [][NextCbs]_vars

InitRisk == InitState /\ NoProbes /\ budget = MaxRiskEdits + MaxRiskEdits

NextRisk ==
  \/ addRiskRow \/ deleteRiskRow \/ updateRiskRow
  \/ onRisksCsvSelected \/ onRisksCsvRead

SpecRisk == InitRisk /\ [][NextRisk]_vars

\* the CBS table and the risk register together
MaxRowEdits == 2

InitRows == InitState /\ NoProbes /\ budget = MaxRowEdits + MaxRowEdits

NextRows == NextCbs \/ NextRisk

SpecRows == InitRows /\ [][NextRows]_vars

(***************************************************************************)
(* The validation engine on its own: the rule set applied to one User      *)
(* defined CBS row whose manual fields hold any of the values a field can  *)
(* hold (null as constructed, blank or typed text, an imported number).    *)
(***************************************************************************)
ManualFieldStates ==
  {Null, Empty, Str(50), Str(100), Str(-1), Num(50), Num(100)}

ValidationProbes ==
  { [present |-> TRUE, iterations |-> Num(5000), mode |-> "none", risks |-> <<>>,
     cbsItems |-> <<CbsItem("cbs01", "Piling", Num(10), "User defined", b, m, w)>>] :
      b \in ManualFieldStates, m \in ManualFieldStates, w \in ManualFieldStates }

InitValidation ==
  InitState /\ budget = 0 /\ probe \in ValidationProbes /\ probeOut = NoProbe

\* the useMemo evaluated for the probed inputs
validate ==
  /\ probe.present /\ ~probeOut.present
  /\ probeOut' =
       [present |-> TRUE,
        issues |-> validationIssuesOf(probe.iterations, probe.cbsItems,
                                      probe.risks, probe.mode)]
  /\ UNCHANGED <<probe, factorVars, errors, inputVars, resultVars, isRunning,
                 isExporting, requestVars, importVars, budgetVars>>

NextValidation == validate

SpecValidation == InitValidation /\ [][NextValidation]_vars


(***************************************************************************)
(* The whole rule set: an iteration count, a correlation mode, up to two   *)
(* CBS rows and up to two risks, each field holding what its input or the  *)
(* import can leave in it.                                                 *)
(***************************************************************************)
RuleIterations == {Num(5000), Empty, Str(0), Str(25000)}

RuleTrios ==
  { <<Null, Null, Null>>, <<Str(100), Str(50), Empty>>,
    <<Num(5), Num(10), Num(20)>> }

RuleCbsRows ==
  { [CbsItem("cbs01", n, bc, cf, t[1], t[2], t[3])
       EXCEPT !.driverGroup = d[1], !.sensitivity = d[2]] :
      n \in {"", "X"}, bc \in {Num(0), Empty},
      cf \in {"", "Realistic", "User defined"}, t \in RuleTrios,
      d \in {<<"", "none">>, <<DRIVER_OPTIONS[1], "medium">>} }

RuleCbsLists ==
  {<<>>}
  \cup {<<x>> : x \in RuleCbsRows}
  \cup {<<x, CbsItem("cbs02", "", Num(0), "Realistic", Null, Null, Null)>> :
          x \in RuleCbsRows}

RuleRiskCosts ==
  { <<Num(10), Num(20), Num(40)>>, <<Empty, Str(20), Str(40)>>,
    <<Str(50), Str(20), Str(40)>> }

RuleRiskRows ==
  { Risk("r01", n, "contingent", p, c[1], c[2], c[3]) :
      n \in {"", "R"}, p \in {Num(2), Str(20), Empty}, c \in RuleRiskCosts }

RuleRiskLists ==
  {<<>>}
  \cup {<<r>> : r \in RuleRiskRows}
  \cup {<<r, Risk("r02", "", "contingent", Num(1), Num(1), Num(2), Num(3))>> :
          r \in RuleRiskRows}

RuleProbes ==
  { [present |-> TRUE, iterations |-> it, mode |-> m, cbsItems |-> items,
     risks |-> rs] :
      it \in RuleIterations, m \in {"none", "standard"},
      items \in RuleCbsLists, rs \in RuleRiskLists }

InitRules ==
  InitState /\ budget = 0 /\ probe \in RuleProbes /\ probeOut = NoProbe

SpecRules == InitRules /\ [][NextValidation]_vars

(***************************************************************************)
(* The risk parser on its own, over header lines: every choice of which    *)
(* of the six columns the header line holds, under either spelling, above  *)
(* no row, one row or two rows.                                            *)
(***************************************************************************)
HeaderSpellings ==
  { <<"name", "type", "probability", "low", "mostLikely", "high">>,
    <<"Risk", "riskType", "p", "lowCost", "mode", "highCost">> }

\* the cells of a line at the chosen positions, in order
RECURSIVE Pick(_, _, _)
Pick(cells, chosen, i) ==
  IF i > Len(cells) THEN <<>>
  ELSE (IF i \in chosen THEN <<cells[i]>> ELSE <<>>)
       \o Pick(cells, chosen, i + 1)

HeaderLines ==
  { Pick([i \in 1..6 |-> Text(sp[i])], chosen, 1) :
      sp \in HeaderSpellings, chosen \in (SUBSET (1..6)) \ {{}} }

HeaderFileRows ==
  { <<>>,
    << <<Text("Weather"), Text("contingent"), Str(3), Str(10), Str(20), Str(40)>> >>,
    << <<Text("Ground"), Text("inherent"), Str(5), Str(10), Str(20), Str(40)>>,
       <<Empty, Str(3), Str(50), Str(20), Str(40)>> >> }

HeaderProbes ==
  { [present |-> TRUE, lines |-> <<h>> \o rows] :
      h \in HeaderLines, rows \in HeaderFileRows }

InitHeaders ==
  InitState /\ budget = 0 /\ probe \in HeaderProbes /\ probeOut = NoProbe

\* parseRisksCsv applied to the probed file
parseRisks ==
  /\ probe.present /\ ~probeOut.present
  /\ probeOut' = [present |-> TRUE, out |-> parseRisksCsv(probe.lines)]
  /\ UNCHANGED <<probe, factorVars, errors, inputVars, resultVars, isRunning,
                 isExporting, requestVars, importVars, budgetVars>>

NextHeaders == parseRisks

SpecHeaders == InitHeaders /\ [][NextHeaders]_vars

(***************************************************************************)
(* The risk parser over data rows: a complete header line above one or two *)
(* rows whose cells are well formed, blank, negative, out of range or no   *)
(* number at all.                                                          *)
(***************************************************************************)
RowNameCells == {Text("Weather"), Empty}
RowTypeCells == {Text("Inherent"), Text("contingent"), Text("other"), Empty}
RowProbabilityCells == {Str(3), Str(15), Str(-1), Text("abc"), Empty}
RowCostCells == {Str(10), Str(20), Str(-5), Text("x")}

RiskDataRows ==
  { <<n, t, p, lo, ml, hi>> :
      n \in RowNameCells, t \in RowTypeCells, p \in RowProbabilityCells,
      lo \in RowCostCells, ml \in RowCostCells, hi \in RowCostCells }
  \cup { <<Text("Weather"), Empty, Str(3), lo, Empty>> : lo \in RowCostCells }

FullHeaderLine ==
  <<Text("name"), Text("type"), Text("probability"), Text("low"),
    Text("mostLikely"), Text("high")>>

RowProbes ==
  { [present |-> TRUE, lines |-> <<FullHeaderLine>> \o first \o <<row>>] :
      first \in {<<>>, << <<Empty, Empty, Str(3), Str(10), Str(20), Str(40)>> >>},
      row \in RiskDataRows }

InitRiskParse ==
  InitState /\ budget = 0 /\ probe \in RowProbes /\ probeOut = NoProbe

SpecRiskParse == InitRiskParse /\ [][NextHeaders]_vars

(***************************************************************************)
(* The CBS import on its own: a header line naming the name column and any *)
(* of the base cost and trio columns, above one row whose cells hold a     *)
(* number, a negative number, nothing or text, read while the factor table *)
(* is absent or loaded.                                                    *)
(***************************************************************************)
CbsHeaderLine ==
  <<Text("Name"), Text("baseCost"), Text("low"), Text("mostLikely"), Text("high")>>

CbsAmountCells == {Str(10), Str(-5), Empty, Text("x")}

CbsDataRows ==
  { <<Text("Piling"), bc, lo, ml, hi>> :
      bc \in CbsAmountCells, lo \in CbsAmountCells, ml \in CbsAmountCells,
      hi \in CbsAmountCells }

LoadedFactorKeys == {<<>>, <<"Conservative">>, <<"Conservative", "Realistic">>}

CbsRowProbes ==
  { [present |-> TRUE, chosen |-> {1} \cup chosen, row |-> row,
     lines |-> <<Pick(CbsHeaderLine, {1} \cup chosen, 1),
                 Pick(row, {1} \cup chosen, 1)>>,
     confidenceFactors |-> keys] :
      chosen \in SUBSET (2..5), row \in CbsDataRows, keys \in LoadedFactorKeys }

InitCbsParse ==
  InitState /\ budget = 0 /\ probe \in CbsRowProbes /\ probeOut = NoProbe

\* parseCbsCsv and the newItems of onCbsCsvSelected applied to the probed file
parseCbs ==
  /\ probe.present /\ ~probeOut.present
  /\ probeOut' =
       [present |-> TRUE,
        items |-> importedCbsItems(parseCbsCsv(probe.lines),
                                   defaultFactorOf(probe.confidenceFactors))]
  /\ UNCHANGED <<probe, factorVars, errors, inputVars, resultVars, isRunning,
                 isExporting, requestVars, importVars, budgetVars>>

NextCbsParse == parseCbs

SpecCbsParse == InitCbsParse /\ [][NextCbsParse]_vars

(***************************************************************************)
(* The payload builder on its own: buildPayload applied to states whose    *)
(* fields hold what a change event or an import can store in them (a       *)
(* number, numeric text, the empty string, text that is no number, null).  *)
(***************************************************************************)
PayloadIterations == {Num(5000), Empty, Text("abc")}
PayloadSeeds == {Num(123456), Text("abc")}

PayloadCbsRows ==
  { [CbsItem("cbs01", "Piling", bc, "User defined", b, ml, Null)
       EXCEPT !.driverGroup = d[1], !.sensitivity = d[2]] :
      bc \in {Num(0), Empty, Text("x")},
      b \in {Null, Empty, Str(50), Text("x")},
      ml \in {Null, Str(50)},
      d \in {<<"", "medium">>, <<DRIVER_OPTIONS[1], "high">>,
             <<DRIVER_OPTIONS[1], "none">>, <<"", "">>} }

PayloadCbsLists ==
  {<<>>}
  \cup {<<x>> : x \in PayloadCbsRows}
  \cup {<<CbsItem("cbs03", "Fitout", Str(7), "Realistic", Null, Null, Null), x>> :
          x \in PayloadCbsRows}

PayloadRiskRows ==
  { Risk("r02", "Weather", t, p, lo, Num(20), Str(40)) :
      t \in {"contingent", "inherent"}, p \in {Num(2), Empty, Text("x")},
      lo \in {Num(10), Empty, Text("x")} }

PayloadRiskLists ==
  {<<>>}
  \cup {<<r>> : r \in PayloadRiskRows}
  \cup {<<r, Risk("r01", "Ground", "inherent", Num(5), Num(0), Num(0), Num(0))>> :
          r \in PayloadRiskRows}

PayloadProbes ==
  { [present |-> TRUE, iterations |-> it, seed |-> sd, mode |-> m,
     cbsItems |-> items, risks |-> rs] :
      it \in PayloadIterations, sd \in PayloadSeeds, m \in {"none", "standard"},
      items \in PayloadCbsLists, rs \in PayloadRiskLists }

InitPayload ==
  InitState /\ budget = 0 /\ probe \in PayloadProbes /\ probeOut = NoProbe

\* buildPayload called on the probed state
build ==
  /\ probe.present /\ ~probeOut.present
  /\ probeOut' =
       [present |-> TRUE,
        payload |-> buildPayloadOf(probe.iterations, probe.seed, projectName,
                                   probe.mode, probe.cbsItems, probe.risks)]
  /\ UNCHANGED <<probe, factorVars, errors, inputVars, resultVars, isRunning,
                 isExporting, requestVars, importVars, budgetVars>>

NextPayload == build

SpecPayload == InitPayload /\ [][NextPayload]_vars

(***************************************************************************)
(* The sensitivity tiers.  abs_rho is held in hundredths.  The component   *)
(* computes groupedSensitivity from the rows of the reply, and its results *)
(* panel computes the two tables it shows, dom and mod, from the same rows.*)
(***************************************************************************)
DOMINANT_MIN == 30
MODERATE_MIN == 15
MAX_PER_GROUP == 6
DomShown == 8
ModShown == 10

\* Number(x.abs_rho) || 0, in hundredths
absRho(x) == OrZero(ToNumber(x.abs_rho)).n

\* rows.slice(0, n)
Slice(rows, n) == SubSeq(rows, 1, IF Len(rows) < n THEN Len(rows) ELSE n)

\* one step of the stable descending sort: x goes behind every row that
\* compares greater or equal
RECURSIVE InsertDesc(_, _)
InsertDesc(sorted, x) ==
  IF Len(sorted) = 0 THEN <<x>>
  ELSE IF absRho(Head(sorted)) >= absRho(x)
    THEN <<Head(sorted)>> \o InsertDesc(Tail(sorted), x)
  ELSE <<x>> \o sorted

\* [...rows].sort((a, b) => b - a) up to row n
RECURSIVE SortDesc(_, _)
SortDesc(rows, n) ==
  IF n = 0 THEN <<>> ELSE InsertDesc(SortDesc(rows, n - 1), rows[n])

groupedSensitivity(rows) ==
  LET sorted == SortDesc(rows, Len(rows)) IN
    [dominant |->
       Slice(SelectSeq(sorted, LAMBDA x : absRho(x) >= DOMINANT_MIN),
             MAX_PER_GROUP),
     moderate |->
       Slice(SelectSeq(sorted,
                       LAMBDA x : absRho(x) >= MODERATE_MIN
                                    /\ absRho(x) < DOMINANT_MIN),
             MAX_PER_GROUP)]

\* Number(d.abs_rho) >= bound, false for NaN
AtLeast(v, bound) == IsFinite(ToNumber(v)) /\ ToNumber(v).n >= bound
Below(v, bound) == IsFinite(ToNumber(v)) /\ ToNumber(v).n < bound

\* the second table's filter without its upper bound
shownModerateNoCeiling(rows) ==
  Slice(SelectSeq(rows, LAMBDA d : AtLeast(d.abs_rho, MODERATE_MIN)), ModShown)

\* dom and mod of the results panel
shownDominant(rows) ==
  Slice(SelectSeq(rows, LAMBDA d : AtLeast(d.abs_rho, DOMINANT_MIN)), DomShown)

shownModerate(rows) ==
  Slice(SelectSeq(rows, LAMBDA d : AtLeast(d.abs_rho, MODERATE_MIN)
                                     /\ Below(d.abs_rho, DOMINANT_MIN)),
        ModShown)

\* replies of the engine: any short list, the lists long enough for a cap to
\* cut in either order, and a list across both tiers
AbsRhoValues ==
  {Num(50), Num(31), Num(30), Num(29), Num(16), Num(15), Num(10), Null}

SensitivityNames ==
  <<"cbs01", "cbs02", "cbs03", "cbs04", "r01", "r02", "cbs05", "cbs06",
    "cbs07", "cbs08", "cbs09">>

SensitivityRows(values) ==
  [i \in DOMAIN values |->
     [name |-> SensitivityNames[i], category |-> "CBS", abs_rho |-> values[i]]]

MaxShortReply == 3

LongReplies ==
  { [i \in 1..n |-> Num(from + i)] :
      n \in {7, 9, 11}, from \in {MODERATE_MIN, DOMINANT_MIN} }
  \cup { [i \in 1..n |-> Num(from + 1 + n - i)] :
      n \in {7, 9, 11}, from \in {MODERATE_MIN, DOMINANT_MIN} }
  \cup { <<Num(50), Num(31), Num(29), Num(16), Num(10)>> }

SensitivityReplies ==
  UNION { [1..n -> AbsRhoValues] : n \in 0..MaxShortReply } \cup LongReplies

SensitivityProbes ==
  { [present |-> TRUE, rows |-> SensitivityRows(values)] :
      values \in SensitivityReplies }

InitSensitivity ==
  InitState /\ budget = 0 /\ probe \in SensitivityProbes /\ probeOut = NoProbe

\* the useMemo and the results panel evaluated on the reply's rows
classify ==
  /\ probe.present /\ ~probeOut.present
  /\ probeOut' = [present |-> TRUE,
                  grouped |-> groupedSensitivity(probe.rows),
                  dom |-> shownDominant(probe.rows),
                  mod |-> shownModerate(probe.rows)]
  /\ UNCHANGED <<probe, factorVars, errors, inputVars, resultVars, isRunning,
                 isExporting, requestVars, importVars, budgetVars>>

NextSensitivity == classify

SpecSensitivity == InitSensitivity /\ [][NextSensitivity]_vars

(***************************************************************************)
(* The derived cost calculator on its own: one CBS row against a loaded    *)
(* factor table.  Multipliers are in tenths and base costs are multiples   *)
(* of ten, so that a product is a whole number.                            *)
(***************************************************************************)
\* confidenceFactorMap[key]: the entries stored under the key, none if absent
factorOf(table, key) == SelectSeq(table, LAMBDA e : e.key = key)

\* Number(m ?? 1), m a multiplier in tenths
multiplierOf(m) == IF m.k \in {"null", "undef"} THEN Num(10) ELSE ToNumber(m)

\* base * m, NaN when either is NaN
Times(base, m) ==
  IF IsFinite(base) /\ IsFinite(m) THEN Num((base.n * m.n) \div 10) ELSE NaN

\* the calculator with the base cost read without `|| 0`
calcDerivedCostsBareBase(row, table) ==
  IF isUserDefinedFactor(row.confidenceFactor)
    THEN [best |-> ToNumber(row.bestCaseCost),
          ml |-> ToNumber(row.mostLikelyCost),
          worst |-> ToNumber(row.worstCaseCost), isDerived |-> FALSE]
  ELSE
    LET f == factorOf(table, row.confidenceFactor)
        base == ToNumber(row.baseCost)
    IN IF Len(f) = 0
         THEN [best |-> NaN, ml |-> NaN, worst |-> NaN, isDerived |-> TRUE]
       ELSE [best |-> Times(base, multiplierOf(f[1].best)),
             ml |-> Times(base, multiplierOf(f[1].most_likely)),
             worst |-> Times(base, multiplierOf(f[1].worst)),
             isDerived |-> TRUE]

calcDerivedCosts(row, table) ==
  IF isUserDefinedFactor(row.confidenceFactor)
    THEN [best |-> ToNumber(row.bestCaseCost),
          ml |-> ToNumber(row.mostLikelyCost),
          worst |-> ToNumber(row.worstCaseCost), isDerived |-> FALSE]
  ELSE
    LET f == factorOf(table, row.confidenceFactor)
        base == OrZero(ToNumber(row.baseCost))
    IN IF Len(f) = 0
         THEN [best |-> NaN, ml |-> NaN, worst |-> NaN, isDerived |-> TRUE]
       ELSE [best |-> Times(base, multiplierOf(f[1].best)),
             ml |-> Times(base, multiplierOf(f[1].most_likely)),
             worst |-> Times(base, multiplierOf(f[1].worst)),
             isDerived |-> TRUE]

DerivedTables ==
  { <<>>,
    << FactorEntry("Conservative", 10, 11, 12),
       FactorEntry("Realistic", 9, 10, 13),
       FactorEntry("% Allocation", 10, 10, 10) >>,
    << [FactorEntry("Realistic", 9, 10, 13) EXCEPT !.best = Undefined],
       [FactorEntry("Conservative", 10, 11, 12) EXCEPT !.worst = Null] >> }

DerivedFactorKeys ==
  {"Realistic", "Conservative", "Optimistic", "% Allocation", "",
   "User defined", "USER DEFINED"}

DerivedBaseCosts == {Num(0), Num(10), Num(200), Str(100), Empty, Null, Text("abc")}

DerivedManualCosts == {Null, Str(50), Num(70)}

DerivedProbes ==
  { [present |-> TRUE, table |-> table,
     row |-> CbsItem("cbs01", "Piling", base, cf, b, m, w)] :
      table \in DerivedTables, base \in DerivedBaseCosts,
      cf \in DerivedFactorKeys, b \in DerivedManualCosts,
      m \in DerivedManualCosts, w \in DerivedManualCosts }

InitDerived ==
  InitState /\ budget = 0 /\ probe \in DerivedProbes /\ probeOut = NoProbe

\* calcDerivedCosts(row) as the row render calls it
derive ==
  /\ probe.present /\ ~probeOut.present
  /\ probeOut' = [present |-> TRUE,
                  derived |-> calcDerivedCosts(probe.row, probe.table)]
  /\ UNCHANGED <<probe, factorVars, errors, inputVars, resultVars, isRunning,
                 isExporting, requestVars, importVars, budgetVars>>

NextDerived == derive

SpecDerived == InitDerived /\ [][NextDerived]_vars

(***************************************************************************)
(* The CBS parser on repeated names: up to three data lines whose names    *)
(* differ in case only, repeat, or are blank, each line with its own cost, *)
(* under a header with a name column, under a header without one, and      *)
(* with no header at all.                                                  *)
(***************************************************************************)
DedupNameCells ==
  {Text("Piling"), Text("piling"), Text("PILING"), Text("Fitout"), Text(" "),
   Empty}

\* the cost cell of line i
DedupCostCell(i) == Str(10 * i)

MaxDedupLines == 3

DedupDataLines ==
  UNION { { [i \in 1..n |-> <<names[i], DedupCostCell(i)>>] :
              names \in [1..n -> DedupNameCells] } : n \in 0..MaxDedupLines }

DedupHeaders ==
  { <<>>, << <<Text("Name"), Text("cost")>> >>, << <<Text("item"), Text("cost")>> >> }

DedupProbes ==
  { [present |-> TRUE, named |-> (header = << <<Text("Name"), Text("cost")>> >>),
     lines |-> header \o data] :
      header \in DedupHeaders, data \in DedupDataLines }

InitDedup ==
  InitState /\ budget = 0 /\ probe \in DedupProbes /\ probeOut = NoProbe

\* parseCbsCsv(text) of onCbsCsvSelected
parseCbsRows ==
  /\ probe.present /\ ~probeOut.present
  /\ probeOut' = [present |-> TRUE, rows |-> parseCbsCsv(probe.lines)]
  /\ UNCHANGED <<probe, factorVars, errors, inputVars, resultVars, isRunning,
                 isExporting, requestVars, importVars, budgetVars>>

NextDedup == parseCbsRows

SpecDedup == InitDedup /\ [][NextDedup]_vars

(***************************************************************************)
(* The row render's User defined indicator next to the validation engine:  *)
(* both evaluated on one User defined row whose manual fields hold any of  *)
(* the values a field can hold.                                            *)
(***************************************************************************)
\* a <= b on numbers: false when either is NaN
Le(a, b) == IsFinite(a) /\ IsFinite(b) /\ a.n <= b.n

\* badUD of the CBS row render
badUD(row, table) ==
  LET ud == isUserDefinedFactor(row.confidenceFactor)
      derived == calcDerivedCosts(row, table)
  IN ud /\ ~(/\ IsFinite(derived.best)
             /\ IsFinite(derived.ml)
             /\ IsFinite(derived.worst)
             /\ Le(Num(0), derived.best)
             /\ Le(Num(0), derived.ml)
             /\ Le(Num(0), derived.worst)
             /\ Le(derived.best, derived.ml)
             /\ Le(derived.ml, derived.worst))

\* one render of the probed row: the validation memo and the row's indicator
renderCbsRow ==
  /\ probe.present /\ ~probeOut.present
  /\ probeOut' =
       [present |-> TRUE,
        issues |-> validationIssuesOf(probe.iterations, probe.cbsItems,
                                      probe.risks, probe.mode),
        badUD |-> badUD(probe.cbsItems[1], confidenceFactorMap)]
  /\ UNCHANGED <<probe, factorVars, errors, inputVars, resultVars, isRunning,
                 isExporting, requestVars, importVars, budgetVars>>

NextIndicator == renderCbsRow

SpecIndicator == InitValidation /\ [][NextIndicator]_vars

(***************************************************************************)
(* Properties.                                                             *)
(***************************************************************************)
userInputs == <<iterations, seed, correlationMode, cbsItems, risks>>

\* C1: every user mutation of an input clears the previous result: a step
\* that changes iterations, seed, the correlation mode, a CBS item or a risk
\* (the factor table's own fallback apart) leaves results null and
\* sensitivity empty.
C1_EditClearsResults ==
  [][(userInputs' # userInputs /\ factorsFetch' = factorsFetch)
       => (~results'.present /\ sensitivity' = <<>>)]_vars

\* the part of a payload set by the CBS rows, the risks and the mode, the
\* factor keys apart (the factor table's fallback may rewrite those)
rowInputsOf(payload) ==
  [mode |-> payload.correlation_mode,
   cbs |-> [i \in DOMAIN payload.cbsItems |->
              [payload.cbsItems[i] EXCEPT !.confidenceFactor = ""]],
   risks |-> payload.contingentRisks]

\* C2: results never show data of a previous input set: when a simulate
\* reply is handled and results become visible, they were computed from the
\* CBS rows, risks and correlation mode the interface holds at that moment.
C2_ReplyMatchesInputs ==
  [][(Len(simPending') < Len(simPending) /\ results'.present)
       => rowInputsOf(results'.payload) = rowInputsOf(buildPayload')]_vars

\* C3: a simulate request is issued only from a state whose validation
\* issue list is empty.
C3_RunOnlyWhenValid ==
  [][Len(simPending') > Len(simPending) => Len(validationIssues) = 0]_vars

\* a request issued after the user typed an iteration count in range
C3_Witness ==
  /\ Len(simPending) = 1
  /\ simPending[1].settings.iterations = Num(100)
  /\ iterations = Str(100)

\* C4: at most one simulate request is in flight, isRunning is true exactly
\* while it is, and the run button is disabled meanwhile.
C4_SingleFlight ==
  /\ Len(simPending) <= 1
  /\ isRunning <=> Len(simPending) = 1
  /\ isRunning => ~runEnabled(isRunning, isExporting, isInputsValid)

\* a second run in flight while the first run's commentary is still awaited
C4_Witness == Len(simPending) = 1 /\ Len(comPending) = 1

\* C5: whenever results and commentary are both shown, the commentary was
\* generated from the payload of those results.
C5_CommentaryMatchesResults ==
  (results.present /\ commentary.present)
    => commentary.payload = results.payload

manualFieldsNull(x) ==
  x.bestCaseCost = Null /\ x.mostLikelyCost = Null /\ x.worstCaseCost = Null

\* C6: exactly one cost-determination mode is active per CBS item: every
\* item whose confidenceFactor is not "User defined" has its three manual
\* cost fields null.
C6_OneCostMode ==
  \A i \in DOMAIN cbsItems :
    ~isUserDefinedFactor(cbsItems[i].confidenceFactor)
      => manualFieldsNull(cbsItems[i])

\* C7: every inherent risk has lowCost = mostLikelyCost = highCost = 0.
C7_InherentZeroCosts ==
  \A i \in DOMAIN risks :
    isInherentRow(risks[i])
      => /\ risks[i].lowCost = Num(0)
         /\ risks[i].mostLikelyCost = Num(0)
         /\ risks[i].highCost = Num(0)

\* the inherent row of the imported file, whose cells hold costs, beside a
\* row the user switched to inherent
C7_Witness ==
  /\ Len(risks) = 2
  /\ risks[1].name = "Ground" /\ risks[1].riskType = "inherent"
  /\ risks[2].name = "Weather" /\ risks[2].riskType = "inherent"

uniqueIds(rows) ==
  \A i, j \in DOMAIN rows : rows[i].id = rows[j].id => i = j

\* a step of an edit handler: the list keeps its length and no import lands
sameIds(rows, rowsAfter) ==
  Len(rowsAfter) = Len(rows)
    => \A i \in DOMAIN rows : rowsAfter[i].id = rows[i].id

\* C8: no two CBS items share an id, no two risks share an id, and an edit
\* never changes the id of the item it edits.
C8_UniqueStableIds ==
  /\ [](uniqueIds(cbsItems) /\ uniqueIds(risks))
  /\ [][/\ cbsImport' = cbsImport => sameIds(cbsItems, cbsItems')
        /\ riskImport' = riskImport => sameIds(risks, risks')]_vars

\* a row added after a deletion, in each list
C8_Witness ==
  \/ /\ Len(cbsItems) = 4 /\ cbsItems[4].id = "cbs05"
  \/ /\ Len(cbsItems) = 3 /\ cbsItems[3].id = "cbs03" /\ cbsCounter = 3

orderingMessages ==
  {"Low must be <= Most likely.", "Most likely must be <= High."}

\* the import succeeded with the warning that promises the run
importWarnedOrder ==
  /\ Len(errors) = 1
  /\ errors[1].msg = "Risk import warnings (import succeeded)"
  /\ \E k \in DOMAIN errors[1].detail :
       errors[1].detail[k].msg =
         "expected low <= mostLikely <= high. Simulation will still run."

\* every input other than the risks' cost ordering is valid
onlyOrderingIssues ==
  \A k \in DOMAIN validationIssues :
    validationIssues[k].scope = "Risk"
      /\ validationIssues[k].msg \in orderingMessages

\* C9: a contingent risk whose costs are out of order is only warned about:
\* after the import that kept it, all else being valid, the run is permitted.
C9_SoftOrderingRuns ==
  (importWarnedOrder /\ onlyOrderingIssues)
    => runEnabled(isRunning, isExporting, isInputsValid)

cbsOrderingMessages ==
  {"Best case must be <= Most likely.", "Most likely must be <= Worst case."}

orderingIssuesOf(issues) ==
  SelectSeq(issues, LAMBDA x : x.msg \in cbsOrderingMessages)

\* C10: a User defined item with bestCaseCost = 100, mostLikelyCost = 50 and
\* no worst case supplied gets the "Best case must be <= Most likely" issue
\* and no other ordering issue.
C10_OnlyBestOrdering ==
  (/\ probeOut.present
   /\ ToNumber(probe.cbsItems[1].bestCaseCost) = Num(100)
   /\ isNum(probe.cbsItems[1].bestCaseCost)
   /\ ToNumber(probe.cbsItems[1].mostLikelyCost) = Num(50)
   /\ isNum(probe.cbsItems[1].mostLikelyCost)
   /\ IsBlank(probe.cbsItems[1].worstCaseCost))
    => orderingIssuesOf(probeOut.issues)
         = <<Issue("CBS", 1, "Best case must be <= Most likely.")>>

hasIssue(issues, scope, row, msg) ==
  \E k \in DOMAIN issues : issues[k] = Issue(scope, row, msg)

\* a value was supplied and is a finite number
provided(v) == ~IsBlank(v) /\ IsFinite(ToNumber(v))

\* a required amount is in order: supplied, finite and 0 or more
amountOk(v) == provided(v) /\ ToNumber(v).n >= 0

iterationRulesReported(its, issues) ==
  LET it == ToNumber(its) IN
    /\ hasIssue(issues, "", 0, "Iterations must be a positive number.")
         <=> ~(IsFinite(it) /\ it.n > 0)
    /\ hasIssue(issues, "", 0, "Iterations must be 20,000 or less.")
         <=> (IsFinite(it) /\ it.n > MaxIterations)

cbsRulesReported(items, mode, issues) ==
  /\ Len(items) = 0
       => hasIssue(issues, "", 0, "At least one CBS cost item is required.")
  /\ \A i \in DOMAIN items :
       LET x == items[i] IN
         /\ x.name = "" => hasIssue(issues, "CBS", i, "Name is required.")
         /\ ~amountOk(x.baseCost)
              => hasIssue(issues, "CBS", i, "Base Cost must be 0 or more.")
         /\ x.confidenceFactor = ""
              => hasIssue(issues, "CBS", i, "Confidence Factor is required.")
         /\ (mode = "standard" /\ x.driverGroup = "")
              => hasIssue(issues, "CBS", i,
                          "Driver group is required in Standard correlation mode.")
         /\ (mode = "standard" /\ x.sensitivity \notin {"low", "medium", "high"})
              => hasIssue(issues, "CBS", i,
                          "Sensitivity must be Low/Medium/High.")
         /\ x.confidenceFactor = "User defined"
              => /\ ~amountOk(x.bestCaseCost)
                      => hasIssue(issues, "CBS", i,
                                  "Best case is required (0 or more).")
                 /\ ~amountOk(x.mostLikelyCost)
                      => hasIssue(issues, "CBS", i,
                                  "Most likely is required (0 or more).")
                 /\ ~amountOk(x.worstCaseCost)
                      => hasIssue(issues, "CBS", i,
                                  "Worst case is required (0 or more).")
                 /\ (provided(x.bestCaseCost) /\ provided(x.mostLikelyCost)
                       /\ ToNumber(x.bestCaseCost).n > ToNumber(x.mostLikelyCost).n)
                      => hasIssue(issues, "CBS", i,
                                  "Best case must be <= Most likely.")
                 /\ (provided(x.mostLikelyCost) /\ provided(x.worstCaseCost)
                       /\ ToNumber(x.mostLikelyCost).n > ToNumber(x.worstCaseCost).n)
                      => hasIssue(issues, "CBS", i,
                                  "Most likely must be <= Worst case.")

riskRulesReported(rs, issues) ==
  \A i \in DOMAIN rs :
    LET r == rs[i]
        p == ToNumber(r.probability)
    IN
      /\ r.name = "" => hasIssue(issues, "Risk", i, "Risk name is required.")
      /\ ~(IsFinite(p) /\ p.n >= 0 /\ p.n <= ProbOne)
           => hasIssue(issues, "Risk", i, "Probability must be between 0 and 1.")
      /\ ~amountOk(r.lowCost)
           => hasIssue(issues, "Risk", i, "Low cost must be 0 or more.")
      /\ ~amountOk(r.mostLikelyCost)
           => hasIssue(issues, "Risk", i, "Most likely cost must be 0 or more.")
      /\ ~amountOk(r.highCost)
           => hasIssue(issues, "Risk", i, "High cost must be 0 or more.")
      /\ (provided(r.lowCost) /\ provided(r.mostLikelyCost)
            /\ ToNumber(r.lowCost).n > ToNumber(r.mostLikelyCost).n)
           => hasIssue(issues, "Risk", i, "Low must be <= Most likely.")
      /\ (provided(r.mostLikelyCost) /\ provided(r.highCost)
            /\ ToNumber(r.mostLikelyCost).n > ToNumber(r.highCost).n)
           => hasIssue(issues, "Risk", i, "Most likely must be <= High.")

scopeRank(issue) ==
  CASE issue.scope = "" -> 0 [] issue.scope = "CBS" -> 1 [] OTHER -> 2

\* iterations and list issues, then CBS issues by row, then risk issues by row
issuesOrdered(issues) ==
  \A k, l \in DOMAIN issues :
    k < l => \/ scopeRank(issues[k]) < scopeRank(issues[l])
             \/ /\ scopeRank(issues[k]) = scopeRank(issues[l])
                /\ issues[k].row <= issues[l].row

\* C11: the rules are independent and every violation is collected: the two
\* iteration issues appear exactly when their conditions hold, whatever the
\* other fields are; every violated CBS rule and risk rule (a name, a required
\* amount of 0 or more, a probability within [0,1], an ordering) has its issue
\* in the list; and the list runs iterations, CBS rows, risk rows.
C11_AllViolationsCollected ==
  probeOut.present
    => /\ iterationRulesReported(probe.iterations, probeOut.issues)
       /\ cbsRulesReported(probe.cbsItems, probe.mode, probeOut.issues)
       /\ riskRulesReported(probe.risks, probeOut.issues)
       /\ issuesOrdered(probeOut.issues)

\* the five required columns: the name the warning gives each, and its aliases
requiredColumns ==
  << [label |-> "name (or risk)", aliases |-> {"name", "risk"}],
     [label |-> "probability (or p)", aliases |-> {"probability", "p"}],
     [label |-> "lowCost (or low)", aliases |-> {"lowcost", "low"}],
     [label |-> "mostLikelyCost (or mostLikely/mode)",
      aliases |-> {"mostlikelycost", "mostlikely", "mode"}],
     [label |-> "highCost (or high)", aliases |-> {"highcost", "high"}] >>

\* no cell of the header line is one of the column's aliases
unresolved(headerLine, column) ==
  \A i \in DOMAIN headerLine :
    ToLowerCase(CellText(headerLine[i])) \notin column.aliases

unresolvedLabels(headerLine) ==
  LET missing == SelectSeq(requiredColumns,
                           LAMBDA c : unresolved(headerLine, c))
  IN [k \in DOMAIN missing |-> missing[k].label]

\* C12: a risk file whose header leaves any of the five required columns
\* unresolved yields no risk and exactly one warning, which names every
\* missing column, whatever its rows hold.
C12_MissingHeadersAbort ==
  (probeOut.present /\ Len(unresolvedLabels(probe.lines[1])) > 0)
    => /\ probeOut.out.risks = <<>>
       /\ Len(probeOut.out.warnings) = 1
       /\ probeOut.out.warnings[1].msg = "Missing required headers"
       /\ probeOut.out.warnings[1].missing = unresolvedLabels(probe.lines[1])

\* a file with data rows whose header lacks the probability and high columns
C12_Witness ==
  /\ probeOut.present
  /\ Len(probe.lines) = 3
  /\ unresolvedLabels(probe.lines[1])
       = <<"probability (or p)", "highCost (or high)">>
  /\ probeOut.out.risks = <<>>

hasWarning(warnings, row, msg) ==
  \E k \in DOMAIN warnings : warnings[k] = Warning(row, msg)

\* a cell holding text that is no number; a blank or absent cell counts as 0
nonNumeric(c) == c.k = "text"
cellNumber(c) == IF c.k = "str" THEN c.n ELSE 0

riskWellFormed(r) ==
  /\ r.name # ""
  /\ r.riskType \in {"inherent", "contingent"}
  /\ r.probability.k = "num"
  /\ r.probability.n >= 0 /\ r.probability.n <= ProbOne
  /\ \A f \in {"lowCost", "mostLikelyCost", "highCost"} :
       r[f].k = "num" /\ r[f].n >= 0

\* the warnings owed to the data line at index i (name, type, probability,
\* low, mostLikely, high in that order)
rowWarned(cells, i, warnings) ==
  IF CellText(CellAt(cells, 1)) = ""
    THEN hasWarning(warnings, i, "missing risk name; skipped.")
  ELSE
    /\ nonNumeric(CellAt(cells, 3))
         => hasWarning(warnings, i, "probability not a number; set to 0.")
    /\ (cellNumber(CellAt(cells, 3)) < 0
          \/ cellNumber(CellAt(cells, 3)) > ProbOne)
         => hasWarning(warnings, i, "probability out of range; clamped to 0-1.")
    /\ \A c \in {<<4, "lowCost">>, <<5, "mostLikelyCost">>, <<6, "highCost">>} :
         /\ nonNumeric(CellAt(cells, c[1]))
              => hasWarning(warnings, i, c[2] \o " not a number; set to 0.")
         /\ cellNumber(CellAt(cells, c[1])) < 0
              => hasWarning(warnings, i, c[2] \o " < 0; set to 0.")

\* a line like `Weather,contingent,0.3,10,20,40`
cleanRow(cells) ==
  /\ Len(cells) = 6
  /\ cells[1].k = "text"
  /\ cells[2] \in {Empty, Text("contingent")}
  /\ \A j \in 3..6 : cells[j].k = "str" /\ cells[j].n >= 0
  /\ cells[3].n <= ProbOne
  /\ cells[4].n <= cells[5].n /\ cells[5].n <= cells[6].n

\* the risk a clean line is parsed into: its cells, unchanged
asParsed(cells) ==
  [name |-> cells[1].s, riskType |-> "contingent",
   probability |-> Num(cells[3].n), lowCost |-> Num(cells[4].n),
   mostLikelyCost |-> Num(cells[5].n), highCost |-> Num(cells[6].n)]

numericCell(c) == c \in probe.chosen /\ probe.row[c].k = "str"

fullyUserDefined == \A c \in 2..5 : numericCell(c)

expectedDefaultFactor(keys) ==
  IF Len(keys) = 0 \/ "Realistic" \in Range(keys) THEN "Realistic" ELSE keys[1]

importTargets ==
  <<cbsItems, risks, cbsCounter, riskCounter, results, sensitivity>>

\* the step that opens an import, and the step that ends one with no usable row
importOpens ==
  \/ (~cbsImport.present /\ cbsImport'.present)
  \/ (~riskImport.present /\ riskImport'.present)

importFails ==
  \/ /\ cbsImport.present /\ ~cbsImport'.present
     /\ Len(parseCbsCsv(cbsImport.lines)) = 0
  \/ /\ riskImport.present /\ ~riskImport'.present
     /\ Len(parseRisksCsv(riskImport.lines).risks) = 0

\* C15: a failed import leaves prior state untouched: choosing the file and
\* finding no usable row in it change neither list, neither id counter, nor
\* results and sensitivity.
C15_FailedImportKeepsState ==
  [][(importOpens \/ importFails) => importTargets' = importTargets]_vars

\* results on screen beside the error of a risk import that failed
C15_Witness ==
  /\ results.present
  /\ Len(sensitivity) > 0
  /\ Len(errors) = 1
  /\ errors[1].msg = "Risk import failed"

\* a manual cost of the payload against the field it was built from
manualCoerced(sent, held) ==
  /\ sent = Null <=> IsBlank(held)
  /\ sent # Null => IsFinite(sent)

C17_DriversOnlyInStandardMode ==
  probeOut.present
    => \A i \in DOMAIN probe.cbsItems :
         LET x == probe.cbsItems[i]
             sent == probeOut.payload.cbsItems[i]
         IN IF probe.mode = "none"
              THEN sent.driver_group = Null /\ sent.sensitivity = Null
              ELSE /\ sent.driver_group
                        = (IF x.driverGroup = "" THEN Null
                                                 ELSE Text(x.driverGroup))
                   /\ sent.sensitivity
                        = (IF x.sensitivity = "" THEN Text("medium")
                                                 ELSE Text(x.sensitivity))

\* an item still holding a driver and a sensitivity, built in mode "none"
C17_Witness ==
  /\ probeOut.present
  /\ probe.mode = "none"
  /\ Len(probe.cbsItems) = 2
  /\ probe.cbsItems[2].driverGroup = DRIVER_OPTIONS[1]
  /\ probe.cbsItems[2].sensitivity = "high"
  /\ probeOut.payload.cbsItems[2].driver_group = Null

\* C18: the payload is a function of the state it is built from and building
\* changes nothing: the payload's cbsItems and contingentRisks have the
\* length, the order and the ids of the state's lists.
payloadMirrors(payload, items, rs) ==
  /\ Len(payload.cbsItems) = Len(items)
  /\ \A i \in DOMAIN items : payload.cbsItems[i].id = items[i].id
  /\ Len(payload.contingentRisks) = Len(rs)
  /\ \A i \in DOMAIN rs : payload.contingentRisks[i].id = rs[i].id

C18_PayloadMirrorsLists ==
  /\ [](probeOut.present
          => payloadMirrors(probeOut.payload, probe.cbsItems, probe.risks))
  /\ [][probeOut' # probeOut
          => /\ probe' = probe
             /\ userInputs' = userInputs
             /\ projectName' = projectName]_vars

\* two items and two risks, one of them inherent, listed out of id order
C18_Witness ==
  /\ probeOut.present
  /\ Len(probe.cbsItems) = 2 /\ Len(probe.risks) = 2
  /\ probeOut.payload.cbsItems[1].id = "cbs03"
  /\ probeOut.payload.contingentRisks[2].id = "r01"

\* the value of a row as the classifier reads it: a missing abs_rho is 0
rhoOf(x) == IF x.abs_rho.k = "num" THEN x.abs_rho.n ELSE 0

tiersPartition(dominant, moderate, rows) ==
  /\ \A k \in DOMAIN dominant : rhoOf(dominant[k]) >= 30
  /\ \A k \in DOMAIN moderate :
       rhoOf(moderate[k]) >= 15 /\ rhoOf(moderate[k]) < 30
  /\ \A k \in DOMAIN dominant, l \in DOMAIN moderate :
       dominant[k].name # moderate[l].name
  /\ \A i \in DOMAIN rows :
       rhoOf(rows[i]) < 15
         => /\ \A k \in DOMAIN dominant : dominant[k].name # rows[i].name
            /\ \A l \in DOMAIN moderate : moderate[l].name # rows[i].name

rhoSet(tier) == {rhoOf(tier[k]) : k \in DOMAIN tier}

\* C19: the sensitivity rows are partitioned by abs_rho: Dominant holds only
\* rows of 0.30 or more, Moderate only rows from 0.15 up to but not 0.30, no
\* row is in both and a row under 0.15 is in neither; the rows 0.5, 0.31,
\* 0.29, 0.16, 0.10 give Dominant {0.5, 0.31} and Moderate {0.29, 0.16}.
C19_TiersPartitionRows ==
  probeOut.present
    => /\ tiersPartition(probeOut.dom, probeOut.mod, probe.rows)
       /\ tiersPartition(probeOut.grouped.dominant, probeOut.grouped.moderate,
                         probe.rows)
       /\ probe.rows = SensitivityRows(<<Num(50), Num(31), Num(29), Num(16),
                                         Num(10)>>)
            => /\ rhoSet(probeOut.dom) = {50, 31}
               /\ rhoSet(probeOut.mod) = {29, 16}
               /\ rhoSet(probeOut.grouped.dominant) = {50, 31}
               /\ rhoSet(probeOut.grouped.moderate) = {29, 16}

\* the five rows of the example, classified
C19_Witness ==
  /\ probeOut.present
  /\ Len(probe.rows) = 5
  /\ Len(probeOut.dom) = 2 /\ Len(probeOut.mod) = 2

nonIncreasing(tier) ==
  \A k, l \in DOMAIN tier : k < l => rhoOf(tier[k]) >= rhoOf(tier[l])

\* no row left out of the tier outranks a row kept in it
keepsHighest(tier, rows, lo, hi) ==
  \A i \in DOMAIN rows :
    (rhoOf(rows[i]) >= lo /\ rhoOf(rows[i]) < hi
       /\ \A k \in DOMAIN tier : tier[k].name # rows[i].name)
      => \A k \in DOMAIN tier : rhoOf(tier[k]) >= rhoOf(rows[i])

\* C20: each tier shown is sorted descending by abs_rho and capped at one
\* fixed maximum: whatever order the engine returns the rows in, the table
\* lists them in non-increasing abs_rho, keeps the highest when the cap cuts,
\* and is the tier groupedSensitivity computed.
C20_ShownTiersSortedAndCapped ==
  probeOut.present
    => /\ nonIncreasing(probeOut.dom) /\ nonIncreasing(probeOut.mod)
       /\ keepsHighest(probeOut.dom, probe.rows, 30, 101)
       /\ keepsHighest(probeOut.mod, probe.rows, 15, 30)
       /\ probeOut.dom = probeOut.grouped.dominant
       /\ probeOut.mod = probeOut.grouped.moderate

\* the spellings of the reserved key among the probed keys
userDefinedKeys == {"User defined", "USER DEFINED"}

\* a manual field as a number, for the fields that hold one
heldNumber(v) == IF v.k \in {"num", "str"} THEN Num(v.n) ELSE Num(0)

\* the base cost the calculator is to use: 0 unless the field holds a number
baseOf(row) == IF row.baseCost.k \in {"num", "str"} THEN row.baseCost.n ELSE 0

\* the multiplier in tenths, 1 when the table gives none
tenthsOr1(m) == IF m.k = "num" THEN m.n ELSE 10

tableKeys(table) == {table[i].key : i \in DOMAIN table}

entryFor(table, key) == CHOOSE e \in Range(table) : e.key = key

C22_ReservedKeysExcluded ==
  factorsFetch = "done"
    => /\ "User defined" \notin Range(confidenceFactors)
       /\ \A k \in EXCLUDED_FACTORS : k \notin Range(confidenceFactors)

idsOf(rows) == {rows[i].id : i \in DOMAIN rows}

\* the ids a counter standing at n has given out
issuedIds(prefix, n) == {makeSequentialId(prefix, k) : k \in 1..n}

\* C23: an id is never used again: the id counters never decrease, and a row
\* created by add or by import gets an id that no counter value up to the
\* current one has given out, so the id of a deleted row does not come back.
C23_IdsNeverReused ==
  [][/\ cbsCounter' >= cbsCounter
     /\ riskCounter' >= riskCounter
     /\ \A id \in idsOf(cbsItems') \ idsOf(cbsItems) :
          id \notin issuedIds("cbs", cbsCounter)
     /\ \A id \in idsOf(risks') \ idsOf(risks) :
          id \notin issuedIds("r", riskCounter)]_vars

\* C24: the step that sends a simulate request clears errors, results,
\* sensitivity, commentary, commentaryMode and commentaryError, and for as
\* long as that request is unanswered results is null and sensitivity empty.
C24_RunClearsFirst ==
  /\ [][Len(simPending') > Len(simPending)
          => /\ errors' = <<>>
             /\ results' = NoResults
             /\ sensitivity' = <<>>
             /\ commentary' = NoCommentary
             /\ commentaryMode' = "null"
             /\ commentaryError' = "null"]_vars
  /\ [](Len(simPending) > 0 => results = NoResults /\ sensitivity = <<>>)

\* a second run sent while the commentary of the first, answered run is
\* still awaited
C24_Witness ==
  Len(simPending) = 1 /\ Len(comPending) = 1 /\ results = NoResults

manualFields == {"bestCaseCost", "mostLikelyCost", "worstCaseCost"}

\* a step of updateCbsRow: the rows change, while no file is being read and
\* the factor table does not arrive, and the list keeps its ids
cbsUpdateStep ==
  /\ cbsItems' # cbsItems
  /\ cbsImport = NoImport
  /\ factorsFetch' = factorsFetch
  /\ [i \in DOMAIN cbsItems |-> cbsItems[i].id]
       = [i \in DOMAIN cbsItems' |-> cbsItems'[i].id]

changedFields(x, y) == {f \in DOMAIN x : x[f] # y[f]}

\* C25: updateCbsRow changes one row, the one with the id, and in it only
\* the patched field: its id stays, every other row stays, a factor set to
\* something other than User defined also nulls the three manual fields,
\* and a factor set to User defined leaves baseCost as it was.
C25_UpdateTouchesOneRow ==
  [][cbsUpdateStep =>
       \E i \in DOMAIN cbsItems :
         /\ \A j \in DOMAIN cbsItems : j # i => cbsItems'[j] = cbsItems[j]
         /\ LET x == cbsItems[i]
                y == cbsItems'[i]
                changed == changedFields(x, y)
            IN /\ y.id = x.id
               /\ IF "confidenceFactor" \notin changed
                    THEN Cardinality(changed) = 1
                  ELSE IF y.confidenceFactor \in {"User defined", "USER DEFINED"}
                    THEN changed = {"confidenceFactor"} /\ y.baseCost = x.baseCost
                  ELSE /\ changed \subseteq {"confidenceFactor"} \cup manualFields
                       /\ \A f \in manualFields : y[f] = Null]_vars

\* the imported User defined row "Piling" after its factor select was set to
\* a table key
C25_Witness ==
  \E i \in DOMAIN cbsItems :
    /\ cbsItems[i].name = "Piling" /\ cbsItems[i].baseCost = Num(10)
    /\ cbsItems[i].confidenceFactor = "Conservative"
    /\ cbsItems[i].bestCaseCost = Null

\* C26: once a table with usable keys has loaded, every CBS row's
\* confidenceFactor is one of the usable keys or "User defined".
C26_FactorsStayUsable ==
  Len(confidenceFactors) > 0
    => \A i \in DOMAIN cbsItems :
         \/ cbsItems[i].confidenceFactor \in Range(confidenceFactors)
         \/ isUserDefinedFactor(cbsItems[i].confidenceFactor)

\* a simulate request is answered in this step
simulateAnswered == Len(simPending') < Len(simPending)

\* C27: a failed simulate request is surfaced and corrupts nothing: when its
\* handling ends errors is non-empty, results is null, sensitivity is empty,
\* isRunning is false, no commentary request was sent, and cbsItems, risks,
\* iterations, seed and correlationMode are as they were.  A request answered
\* without a new entry in errors is one that succeeded.
C27_FailedRunSurfaced ==
  [][simulateAnswered =>
       /\ isRunning' = FALSE
       /\ UNCHANGED <<cbsItems, risks, iterations, seed, correlationMode>>
       /\ errors' # errors
            => /\ errors' # <<>>
               /\ results' = NoResults
               /\ sensitivity' = <<>>
               /\ comPending' = comPending
       /\ errors' = errors
            => /\ results' # NoResults
               /\ Len(comPending') = Len(comPending) + 1]_vars

\* the state left by a failed run
C27_Witness ==
  /\ simPending = <<>> /\ ~isRunning
  /\ Len(errors) = 1 /\ errors[1].msg = "Network/API error"
  /\ results = NoResults /\ sensitivity = <<>> /\ comPending = <<>>

\* a name ignoring case, over the names the files hold
nameKey(n) == IF n \in {"Piling", "piling", "PILING"} THEN "piling"
              ELSE IF n = "Fitout" THEN "fitout" ELSE n

\* the name a line bears: its first cell without surrounding blanks
lineName(l) == IF l[1].k = "text" /\ l[1].s # " " THEN l[1].s ELSE ""

\* the lines that are data: all of them unless the first names a name column
dataLines == IF probe.named THEN Tail(probe.lines) ELSE probe.lines

firstBearing(key) ==
  CHOOSE i \in DOMAIN dataLines :
    /\ nameKey(lineName(dataLines[i])) = key
    /\ \A j \in 1..(i - 1) : nameKey(lineName(dataLines[j])) # key

namedKeys == {nameKey(lineName(dataLines[i])) : i \in DOMAIN dataLines} \ {""}

\* C28: the CBS import keeps one row per name ignoring case, the first line
\* bearing the name giving the row its values; rows are in file order, a
\* line with a blank name is skipped, and when the first line names no name
\* column every line, the first included, is a row named by its first cell.
C28_FirstNameWins ==
  probeOut.present =>
    LET rows == probeOut.rows IN
      /\ Len(rows) = Cardinality(namedKeys)
      /\ \A k, l \in DOMAIN rows :
           k # l => nameKey(rows[k].name) # nameKey(rows[l].name)
      /\ \A k \in DOMAIN rows :
           /\ rows[k].name # ""
           /\ nameKey(rows[k].name) \in namedKeys
           /\ LET i == firstBearing(nameKey(rows[k].name)) IN
                /\ rows[k].name = lineName(dataLines[i])
                /\ rows[k].baseCost =
                     (IF probe.named THEN Num(dataLines[i][2].n) ELSE Null)
                /\ \A l \in DOMAIN rows :
                     k < l => i < firstBearing(nameKey(rows[l].name))

\* a name repeated in another case under a header, and a file whose first
\* line names no column
C28_Witness ==
  /\ probeOut.present
  /\ probe.lines = << <<Text("item"), Text("cost")>>,
                      <<Text("Piling"), Str(10)>>, <<Text(" "), Str(20)>>,
                      <<Text("PILING"), Str(30)>> >>
  /\ Len(probeOut.rows) = 2
  /\ probeOut.rows[1].name = "item" /\ probeOut.rows[2].name = "Piling"

\* C29: isCommentaryRunning is true exactly while a commentary request is
\* unanswered, and at most one commentary request is unanswered at a time.
C29_CommentaryFlagTracksRequest ==
  /\ isCommentaryRunning <=> Len(comPending) > 0
  /\ Len(comPending) <= 1

userDefinedMessages ==
  {"Best case is required (0 or more).", "Most likely is required (0 or more).",
   "Worst case is required (0 or more).", "Best case must be <= Most likely.",
   "Most likely must be <= Worst case."}

\* C30: the row's User defined indicator agrees with the validation engine:
\* for a User defined row, whatever its manual fields hold, badUD is true
\* exactly when the issue list has a User defined issue for the row.
C30_IndicatorMatchesValidation ==
  probeOut.present
    => (probeOut.badUD
          <=> \E k \in DOMAIN probeOut.issues :
                /\ probeOut.issues[k].scope = "CBS"
                /\ probeOut.issues[k].row = 1
                /\ probeOut.issues[k].msg \in userDefinedMessages)

====
